---- MODULE Spec2Model ----
(***************************************************************************)
(* The parameter morphospace engine of the wine tasting vocabulary server  *)
(* (src/server.py, phases 2.6 and 2.7): the registries, the deterministic  *)
(* helpers and the tools built on them, as a request/response machine.     *)
(*                                                                         *)
(* Numbers.  Every coordinate, blend factor, phase and distance is an      *)
(* integer count of 1/Unit (four decimals, the precision of the code's     *)
(* round(x, 4)).  A blend factor that is not yet rounded is a fraction     *)
(* [num, den], or a sine scaled by SinScale.  round() is round-half-even   *)
(* on the exact value, and a distance is kept as its exact square until it *)
(* is rounded.  Where IEEE-754 doubles change a discrete outcome the       *)
(* outcome is tabulated from the doubles: the square wave at its jumps     *)
(* (PhaseRoundsBelow) and the classifier at exact ties (DoubleTieBreaks).  *)
(* A coordinate that round(x, 4) would meet exactly half way between two   *)
(* values needs a trajectory of num_steps a multiple of 8, which the       *)
(* bounds below leave out (the default, 20, included).                     *)
(*                                                                         *)
(* A Python dict is a sequence of [key, value] entries in insertion order, *)
(* which is the order its items() and keys() scan.                         *)
(*                                                                         *)
(* The vocabulary tools of phase 1 (generate_wine_visual_vocabulary,       *)
(* compare_wine_profiles, create_regional_preset, BalanceProfile and the   *)
(* taxonomy cache) are specified by VocabularySpec on the same request/    *)
(* response machine.  The two groups of tools share no state: the          *)
(* morphospace tools never touch the taxonomy cache and the vocabulary     *)
(* tools never touch a registry, so each specification leaves the other    *)
(* group's state as the import left it.                                    *)
(***************************************************************************)
EXTENDS Integers, Sequences, FiniteSets, TLC

\* ---------------------------------------------------------------- bounds
\* Largest num_steps a caller passes to compute_wine_tasting_trajectory,
\* besides the default.
MaxNumSteps == 6

\* Largest keyframe_count a caller passes (above every preset's length).
MaxKeyframeCount == 81

\* Largest num_cycles / steps_per_cycle of generate_wine_tasting_rhythmic_sequence.
MaxCycles == 2

MaxStepsPerCycle == 4

\* Largest phase_offset, in quarters (dyadic values are exact as floats).
MaxPhaseQuarters == 5

\* Most times the taxonomy file is opened, the import's read included.
MaxFileOpens == 3

\* ------------------------------------------------------------- constants
\* round(x, 4): one unit is 0.0001.
Unit == 10000

\* round(t, 3) of the trajectory parameter.
TUnit == 1000

\* round(weight, 2) of keyword weights.
WeightUnit == 100

\* num_steps: int = 20
DefaultNumSteps == 20

\* keyframe_count: int = 4
DefaultKeyframeCount == 4

\* The five levels of a BalanceProfile are on a scale of 1-10, in tenths.
LevelUnit == 10

\* varietal_char.get("opacity", 0.8), in hundredths.
DefaultOpacity == 80

\* The sine table's scale: sin(x) is the integer nearest to SinScale * sin(x).
SinScale == 500 * Unit

\* ------------------------------------------------------------ arithmetic
Abs(x) == IF x < 0 THEN -x ELSE x

Min(a, b) == IF a <= b THEN a ELSE b

Max(a, b) == IF a >= b THEN a ELSE b

\* round(n / d) for d > 0: to the nearest integer, an exact half to the even
\* neighbour (Python's round).
RoundDiv(n, d) ==
    LET q == n \div d
        r == n % d
    IN  IF 2 * r < d THEN q
        ELSE IF 2 * r > d THEN q + 1
        ELSE IF q % 2 = 0 THEN q ELSE q + 1

\* int(n / d) for d > 0: truncation toward zero.
TruncDiv(n, d) == IF n >= 0 THEN n \div d ELSE -((-n) \div d)

RECURSIVE IsqrtBetween(_, _, _)
\* The largest r in lo..hi with r * r <= n (lo * lo <= n < (hi + 1) * (hi + 1)).
IsqrtBetween(n, lo, hi) ==
    IF lo = hi THEN lo
    ELSE LET mid == (lo + hi + 1) \div 2
         IN  IF mid * mid <= n THEN IsqrtBetween(n, mid, hi)
             ELSE IsqrtBetween(n, lo, mid - 1)

\* math.sqrt(n) rounded to an integer, n >= 0 a squared distance in units
\* of 1/Unit^2: (r + 1/2)^2 = r^2 + r + 1/4.
RoundSqrt(n) ==
    LET r == IsqrtBetween(n, 0, 46340)
    IN  IF n > r * r + r THEN r + 1 ELSE r

RECURSIVE SumSeq(_)
SumSeq(s) == IF s = << >> THEN 0 ELSE Head(s) + SumSeq(Tail(s))

\* --------------------------------------------------------- Python idioms
\* list(d.keys())
Keys(d) == [i \in 1..Len(d) |-> d[i].key]

\* k in d
Has(d, k) == \E i \in 1..Len(d) : d[i].key = k

\* d[k], for k in d
Get(d, k) == d[CHOOSE i \in 1..Len(d) : d[i].key = k].value

\* lst[a:b] with non-negative a <= b, clipped to the list.
Slice(lst, a, b) == SubSeq(lst, Min(a, Len(lst)) + 1, Min(b, Len(lst)))

\* The position a slice bound k denotes in a list of length n.
SliceBound(k, n) == IF k < 0 THEN Max(n + k, 0) ELSE Min(k, n)

\* A returned JSON document, and an exception that leaves the tool.
Returned(doc) == [status |-> "returned", body |-> doc]

Raised(exc) == [status |-> "raised", body |-> [exception |-> exc]]

\* ------------------------------------------------ registries, as loaded
InitialParameterNames ==
    << "structural_tension",
       "color_depth",
       "aromatic_complexity",
       "textural_weight",
       "temporal_maturity" >>

InitialTastingCoords ==
    <<
       [key |-> "young_burgundy",
        value |-> [structural_tension |-> 7000, color_depth |-> 4500, aromatic_complexity |-> 4000, textural_weight |-> 4000, temporal_maturity |-> 1500]],
       [key |-> "aged_barolo",
        value |-> [structural_tension |-> 8500, color_depth |-> 5500, aromatic_complexity |-> 9500, textural_weight |-> 6500, temporal_maturity |-> 9000]],
       [key |-> "napa_cabernet",
        value |-> [structural_tension |-> 6000, color_depth |-> 9500, aromatic_complexity |-> 5000, textural_weight |-> 9500, temporal_maturity |-> 2000]],
       [key |-> "mosel_riesling",
        value |-> [structural_tension |-> 9000, color_depth |-> 1500, aromatic_complexity |-> 5500, textural_weight |-> 1500, temporal_maturity |-> 1000]],
       [key |-> "rhone_syrah",
        value |-> [structural_tension |-> 5500, color_depth |-> 9000, aromatic_complexity |-> 6500, textural_weight |-> 8500, temporal_maturity |-> 3500]],
       [key |-> "champagne_brut",
        value |-> [structural_tension |-> 8000, color_depth |-> 2000, aromatic_complexity |-> 6000, textural_weight |-> 2500, temporal_maturity |-> 3000]],
       [key |-> "sauternes",
        value |-> [structural_tension |-> 3500, color_depth |-> 7500, aromatic_complexity |-> 9000, textural_weight |-> 8000, temporal_maturity |-> 7000]]
    >>

InitialRhythmicPresets ==
    <<
       [key |-> "aging_evolution",
        value |-> [state_a |-> "young_burgundy", state_b |-> "aged_barolo", pattern |-> "sinusoidal",
                  num_cycles |-> 3, steps_per_cycle |-> 24,
                  description |-> "Temporal evolution from youthful vibrancy to aged complexity"]],
       [key |-> "weight_spectrum",
        value |-> [state_a |-> "mosel_riesling", state_b |-> "napa_cabernet", pattern |-> "triangular",
                  num_cycles |-> 4, steps_per_cycle |-> 20,
                  description |-> "Full sweep from crystalline delicacy to monumental density"]],
       [key |-> "terroir_pulse",
        value |-> [state_a |-> "young_burgundy", state_b |-> "rhone_syrah", pattern |-> "sinusoidal",
                  num_cycles |-> 4, steps_per_cycle |-> 18,
                  description |-> "Cool-climate finesse pulsing against warm-climate power"]],
       [key |-> "elegance_richness",
        value |-> [state_a |-> "champagne_brut", state_b |-> "sauternes", pattern |-> "sinusoidal",
                  num_cycles |-> 5, steps_per_cycle |-> 15,
                  description |-> "Taut effervescent precision cycling with honeyed opulence"]],
       [key |-> "structure_toggle",
        value |-> [state_a |-> "mosel_riesling", state_b |-> "aged_barolo", pattern |-> "square",
                  num_cycles |-> 5, steps_per_cycle |-> 12,
                  description |-> "Sharp alternation between crystalline youth and austere maturity"]]
    >>

InitialVisualTypes ==
    <<
       [key |-> "burgundian_silk",
        value |-> [coords |-> [structural_tension |-> 7000, color_depth |-> 4500, aromatic_complexity |-> 4000, textural_weight |-> 4000, temporal_maturity |-> 1500],
                  keywords |-> << "translucent ruby glow",
                                  "silk draped over fine bone structure",
                                  "delicate cherry-rose luminescence",
                                  "cool mineral transparency",
                                  "intimate layered depth",
                                  "precise elegant restraint",
                                  "forest-floor earthiness" >>,
                  optical_properties |->
                      [finish |-> "satin", transparency |-> "translucent",
                       refraction |-> "soft diffused glow",
                       dominant_palette |-> << "#8B2635", "#C71585", "#FFB6C1" >>]]],
       [key |-> "barolo_patina",
        value |-> [coords |-> [structural_tension |-> 8500, color_depth |-> 5500, aromatic_complexity |-> 9500, textural_weight |-> 6500, temporal_maturity |-> 9000],
                  keywords |-> << "aged garnet-brick translucence",
                                  "tar and rose petal duality",
                                  "noble austere architecture",
                                  "chalky tannic grip texture",
                                  "tertiary truffle complexity",
                                  "time-weathered aristocratic patina",
                                  "dried herb and leather warmth" >>,
                  optical_properties |->
                      [finish |-> "matte chalky", transparency |-> "semi-translucent",
                       refraction |-> "warm brick-edge glow",
                       dominant_palette |-> << "#9B4F47", "#654321", "#8B4513" >>]]],
       [key |-> "napa_monument",
        value |-> [coords |-> [structural_tension |-> 6000, color_depth |-> 9500, aromatic_complexity |-> 5000, textural_weight |-> 9500, temporal_maturity |-> 2000],
                  keywords |-> << "deep opaque purple-black density",
                                  "monumental architectural weight",
                                  "charred oak and dark fruit saturation",
                                  "bold commanding visual mass",
                                  "velvety concentrated darkness",
                                  "sun-drenched power and extract",
                                  "polished new-oak sheen" >>,
                  optical_properties |->
                      [finish |-> "lacquered", transparency |-> "opaque",
                       refraction |-> "deep absorptive",
                       dominant_palette |-> << "#2C1810", "#1A0F14", "#4A0E4E" >>]]],
       [key |-> "riesling_crystal",
        value |-> [coords |-> [structural_tension |-> 9000, color_depth |-> 1500, aromatic_complexity |-> 5500, textural_weight |-> 1500, temporal_maturity |-> 1000],
                  keywords |-> << "crystalline pale-straw luminosity",
                                  "razor-sharp mineral precision",
                                  "electric citrus-petrol clarity",
                                  "taut wire-like structural tension",
                                  "transparent slate-cold purity",
                                  "brilliant star-bright refraction",
                                  "weightless ethereal suspension" >>,
                  optical_properties |->
                      [finish |-> "crystalline", transparency |-> "transparent",
                       refraction |-> "prismatic brilliant",
                       dominant_palette |-> << "#FFFACD", "#F5F5DC", "#BFFF00" >>]]],
       [key |-> "rhone_wildfire",
        value |-> [coords |-> [structural_tension |-> 5500, color_depth |-> 9000, aromatic_complexity |-> 6500, textural_weight |-> 8500, temporal_maturity |-> 3500],
                  keywords |-> << "inky purple-black smoke depth",
                                  "wild untamed visceral power",
                                  "cracked black pepper and smoked meat",
                                  "primal dynamic dark energy",
                                  "dense smoky atmospheric haze",
                                  "garrigue herb-scrub earthiness",
                                  "volcanic dark-fruit intensity" >>,
                  optical_properties |->
                      [finish |-> "smoky matte", transparency |-> "near-opaque",
                       refraction |-> "smouldering dark glow",
                       dominant_palette |-> << "#1A0F14", "#2C1810", "#4A0E4E" >>]]],
       [key |-> "champagne_effervescence",
        value |-> [coords |-> [structural_tension |-> 8000, color_depth |-> 2000, aromatic_complexity |-> 6000, textural_weight |-> 2500, temporal_maturity |-> 3000],
                  keywords |-> << "pale gold effervescent sparkle",
                                  "fine persistent bead streams",
                                  "crisp autolytic biscuit elegance",
                                  "taut mousse-like textural lift",
                                  "luminous celebratory brightness",
                                  "chalk-driven mineral backbone",
                                  "precise toasty sophistication" >>,
                  optical_properties |->
                      [finish |-> "effervescent", transparency |-> "translucent sparkling",
                       refraction |-> "dancing light refractions",
                       dominant_palette |-> << "#F4E4C1", "#FFD700", "#FFFACD" >>]]],
       [key |-> "sauternes_gold",
        value |-> [coords |-> [structural_tension |-> 3500, color_depth |-> 7500, aromatic_complexity |-> 9000, textural_weight |-> 8000, temporal_maturity |-> 7000],
                  keywords |-> << "deep amber-gold honeyed viscosity",
                                  "botrytis noble-rot opulence",
                                  "luscious apricot-saffron richness",
                                  "unctuous coating glycerol weight",
                                  "concentrated marmalade warmth",
                                  "perfumed exotic dried-fruit layers",
                                  "candied ginger and beeswax sheen" >>,
                  optical_properties |->
                      [finish |-> "viscous glossy", transparency |-> "deep translucent",
                       refraction |-> "warm amber diffusion",
                       dominant_palette |-> << "#FFD700", "#FF8C00", "#DEB887" >>]]]
    >>

\* sin of 0..90 degrees, scaled by SinScale.
SinTable ==
    <<
       0, 87262, 174497, 261680, 348782, 435779, 522642, 609347,
       695866, 782172, 868241, 954045, 1039558, 1124755, 1209609, 1294095,
       1378187, 1461859, 1545085, 1627841, 1710101, 1791840, 1873033, 1953656,
       2033683, 2113091, 2191856, 2269952, 2347358, 2424048, 2500000, 2575190,
       2649596, 2723195, 2795965, 2867882, 2938926, 3009075, 3078307, 3146602,
       3213938, 3280295, 3345653, 3409992, 3473292, 3535534, 3596699, 3656769,
       3715724, 3773548, 3830222, 3885730, 3940054, 3993178, 4045085, 4095760,
       4145188, 4193353, 4240240, 4285837, 4330127, 4373099, 4414738, 4455033,
       4493970, 4531539, 4567727, 4602524, 4635919, 4667902, 4698463, 4727593,
       4755283, 4781524, 4806308, 4829629, 4851479, 4871850, 4890738, 4908136,
       4924039, 4938442, 4951340, 4962731, 4972609, 4980973, 4987820, 4993148,
       4996954, 4999238, 5000000
    >>

\* The steps (num_steps, num_cycles, i), for num_steps <= 100 and num_cycles
\* in -4..8, at which the double computed by
\*     (2.0 * math.pi * num_cycles * i / num_steps / (2.0 * math.pi)) % 1.0
\* lies below an exact phase of 0 or 1/2.
PhaseRoundsBelow ==
    {
      <<6, 3, 5>>, <<6, 5, 3>>, <<6, 6, 5>>, <<12, 3, 10>>, <<12, 5, 6>>, <<12, 6, 5>>,
      <<12, 6, 10>>, <<14, 7, 13>>, <<15, 3, 5>>, <<15, 3, 10>>, <<15, 5, 3>>, <<15, 5, 6>>,
      <<15, 5, 12>>, <<15, 6, 5>>, <<15, 6, 10>>, <<16, 8, 11>>, <<16, 8, 15>>, <<22, 1, 11>>,
      <<22, 2, 11>>, <<22, 4, 11>>, <<22, 8, 11>>, <<24, 3, 20>>, <<24, 4, 15>>, <<24, 5, 12>>,
      <<24, 6, 10>>, <<24, 6, 20>>, <<24, 8, 15>>, <<26, -4, 13>>, <<26, -2, 13>>, <<26, -1, 13>>,
      <<28, 7, 26>>, <<30, 1, 15>>, <<30, 2, 15>>, <<30, 3, 5>>, <<30, 3, 10>>, <<30, 3, 20>>,
      <<30, 4, 15>>, <<30, 5, 3>>, <<30, 5, 6>>, <<30, 5, 12>>, <<30, 5, 24>>, <<30, 6, 5>>,
      <<30, 6, 10>>, <<30, 6, 20>>, <<30, 8, 15>>, <<32, 8, 22>>, <<32, 8, 30>>, <<35, 7, 25>>,
      <<44, 1, 22>>, <<44, 2, 11>>, <<44, 2, 22>>, <<44, 4, 11>>, <<44, 4, 22>>, <<44, 8, 11>>,
      <<44, 8, 22>>, <<48, 3, 40>>, <<48, 4, 30>>, <<48, 5, 24>>, <<48, 6, 20>>, <<48, 6, 40>>,
      <<48, 8, 15>>, <<48, 8, 30>>, <<48, 8, 39>>, <<50, 5, 25>>, <<50, 5, 35>>, <<50, 7, 25>>,
      <<52, -4, 13>>, <<52, -4, 26>>, <<52, -2, 13>>, <<52, -2, 26>>, <<52, -1, 26>>, <<55, 5, 33>>,
      <<56, 7, 52>>, <<60, 1, 30>>, <<60, 2, 15>>, <<60, 2, 30>>, <<60, 3, 10>>, <<60, 3, 20>>,
      <<60, 3, 40>>, <<60, 4, 15>>, <<60, 4, 30>>, <<60, 5, 6>>, <<60, 5, 12>>, <<60, 5, 24>>,
      <<60, 5, 48>>, <<60, 6, 5>>, <<60, 6, 10>>, <<60, 6, 20>>, <<60, 6, 40>>, <<60, 6, 55>>,
      <<60, 8, 15>>, <<60, 8, 30>>, <<64, 8, 44>>, <<64, 8, 60>>, <<66, 3, 55>>, <<66, 5, 33>>,
      <<66, 6, 55>>, <<70, 5, 35>>, <<70, 7, 25>>, <<70, 7, 50>>, <<74, 5, 37>>, <<80, 8, 65>>,
      <<80, 8, 75>>, <<82, 1, 41>>, <<82, 2, 41>>, <<82, 4, 41>>, <<82, 8, 41>>, <<88, -4, 55>>,
      <<88, 1, 44>>, <<88, 2, 22>>, <<88, 2, 44>>, <<88, 4, 11>>, <<88, 4, 22>>, <<88, 4, 44>>,
      <<88, 8, 11>>, <<88, 8, 22>>, <<88, 8, 44>>, <<90, 5, 81>>, <<92, 6, 69>>, <<93, 3, 31>>,
      <<93, 3, 62>>, <<93, 6, 31>>, <<93, 6, 62>>, <<94, -4, 47>>, <<94, -2, 47>>, <<94, -1, 47>>,
      <<96, 3, 80>>, <<96, 4, 60>>, <<96, 5, 48>>, <<96, 6, 40>>, <<96, 6, 80>>, <<96, 8, 30>>,
      <<96, 8, 60>>, <<96, 8, 78>>, <<98, 7, 91>>, <<99, -3, 33>>, <<99, -3, 66>>, <<100, 5, 50>>,
      <<100, 5, 70>>, <<100, 7, 50>>
    }

\* (state, a, b): the double distance from state to archetype a is below the
\* one to archetype b although the exact distances are equal.  Listed for the
\* trajectory samples, preset steps and raw coordinates that reach the
\* classifier here; an exact tie that is not listed is a tie of the doubles.
DoubleTieBreaks ==
    {
      << << 0, 2500, 2500, 10000, 2500 >>, "napa_monument", "rhone_wildfire" >>,
      << << 0, 10000, 0, 10000, 7500 >>, "rhone_wildfire", "napa_monument" >>,
      << << 4500, 8250, 7750, 8250, 5250 >>, "sauternes_gold", "rhone_wildfire" >>,
      << << 5750, 4750, 7500, 5250, 5000 >>, "sauternes_gold", "champagne_effervescence" >>,
      << << 5750, 9250, 5750, 9000, 2750 >>, "napa_monument", "rhone_wildfire" >>,
      << << 6000, 6500, 9250, 7250, 8000 >>, "barolo_patina", "sauternes_gold" >>,
      << << 6250, 6750, 5250, 6250, 2500 >>, "rhone_wildfire", "burgundian_silk" >>,
      << << 7000, 7250, 8000, 7500, 6250 >>, "barolo_patina", "rhone_wildfire" >>,
      << << 7500, 3250, 5000, 3250, 2250 >>, "champagne_effervescence", "burgundian_silk" >>,
      << << 7750, 5000, 6750, 5250, 5250 >>, "barolo_patina", "burgundian_silk" >>,
      << << 8500, 1750, 5750, 2000, 2000 >>, "champagne_effervescence", "riesling_crystal" >>
    }

\* (category, keyword): the keyword contains one of the category's words
\* (any(w in kw.lower() for w in [...]) in generate_wine_tasting_prompt).
KeywordMatches ==
    {
      << "color_light", "translucent ruby glow" >>,
      << "texture_structure", "silk draped over fine bone structure" >>,
      << "aroma_complexity", "delicate cherry-rose luminescence" >>,
      << "atmosphere_mood", "intimate layered depth" >>,
      << "atmosphere_mood", "precise elegant restraint" >>,
      << "color_light", "aged garnet-brick translucence" >>,
      << "aroma_complexity", "tar and rose petal duality" >>,
      << "atmosphere_mood", "noble austere architecture" >>,
      << "texture_structure", "chalky tannic grip texture" >>,
      << "aroma_complexity", "tertiary truffle complexity" >>,
      << "aroma_complexity", "dried herb and leather warmth" >>,
      << "color_light", "deep opaque purple-black density" >>,
      << "texture_structure", "monumental architectural weight" >>,
      << "aroma_complexity", "charred oak and dark fruit saturation" >>,
      << "texture_structure", "velvety concentrated darkness" >>,
      << "atmosphere_mood", "sun-drenched power and extract" >>,
      << "color_light", "crystalline pale-straw luminosity" >>,
      << "aroma_complexity", "electric citrus-petrol clarity" >>,
      << "texture_structure", "taut wire-like structural tension" >>,
      << "aroma_complexity", "brilliant star-bright refraction" >>,
      << "texture_structure", "weightless ethereal suspension" >>,
      << "color_light", "inky purple-black smoke depth" >>,
      << "aroma_complexity", "inky purple-black smoke depth" >>,
      << "atmosphere_mood", "wild untamed visceral power" >>,
      << "aroma_complexity", "cracked black pepper and smoked meat" >>,
      << "atmosphere_mood", "primal dynamic dark energy" >>,
      << "texture_structure", "dense smoky atmospheric haze" >>,
      << "aroma_complexity", "garrigue herb-scrub earthiness" >>,
      << "aroma_complexity", "volcanic dark-fruit intensity" >>,
      << "atmosphere_mood", "volcanic dark-fruit intensity" >>,
      << "color_light", "pale gold effervescent sparkle" >>,
      << "texture_structure", "fine persistent bead streams" >>,
      << "texture_structure", "crisp autolytic biscuit elegance" >>,
      << "aroma_complexity", "crisp autolytic biscuit elegance" >>,
      << "texture_structure", "taut mousse-like textural lift" >>,
      << "atmosphere_mood", "luminous celebratory brightness" >>,
      << "texture_structure", "chalk-driven mineral backbone" >>,
      << "aroma_complexity", "precise toasty sophistication" >>,
      << "atmosphere_mood", "precise toasty sophistication" >>,
      << "color_light", "deep amber-gold honeyed viscosity" >>,
      << "aroma_complexity", "deep amber-gold honeyed viscosity" >>,
      << "atmosphere_mood", "botrytis noble-rot opulence" >>,
      << "aroma_complexity", "luscious apricot-saffron richness" >>,
      << "texture_structure", "unctuous coating glycerol weight" >>,
      << "aroma_complexity", "perfumed exotic dried-fruit layers" >>,
      << "aroma_complexity", "candied ginger and beeswax sheen" >>
    }

\* ------------------------------------- phase 1: the tables, as declared
\* The values of the enumerations, in declaration order.
Varietal ==
    << "pinot_noir", "cabernet_sauvignon", "merlot", "syrah", "grenache", "nebbiolo", "sangiovese", "tempranillo", "malbec", "zinfandel", "chardonnay", "sauvignon_blanc", "riesling", "pinot_grigio", "chenin_blanc", "gewurztraminer", "viognier", "albariño" >>

\* class ClimateType(Enum)
ClimateType ==
    << "cool", "moderate", "warm", "hot" >>

\* class WinemakingStyle(Enum)
WinemakingStyle ==
    << "old_world", "new_world" >>

\* class OakTreatment(Enum)
OakTreatment ==
    << "none", "neutral", "french_oak", "american_oak", "mixed_oak" >>

\* class AgeCategory(Enum)
AgeCategory ==
    << "youthful", "developing", "mature", "past_prime" >>

\* Keyed by the Varietal's value; opacity in hundredths.
VARIETAL_CHARACTERISTICS ==
    <<
       [key |-> "pinot_noir",
        value |-> [color_base |-> "ruby translucent",
                   color_hue |-> "#8B2635",
                   opacity |-> 60,
                   texture |-> "delicate silky",
                   structure |-> "fine-grained elegant",
                   visual_weight |-> "light ethereal",
                   characteristic_notes |-> << "cherry", "mushroom", "forest_floor", "rose_petal" >>,
                   edge_quality |-> "soft diffused",
                   composition |-> "nuanced layered intimate"]],
       [key |-> "cabernet_sauvignon",
        value |-> [color_base |-> "deep purple opaque",
                   color_hue |-> "#2C1810",
                   opacity |-> 95,
                   texture |-> "structured firm",
                   structure |-> "bold geometric angular",
                   visual_weight |-> "full commanding",
                   characteristic_notes |-> << "blackcurrant", "cedar", "graphite", "tobacco" >>,
                   edge_quality |-> "defined precise",
                   composition |-> "architectural powerful monumental"]],
       [key |-> "merlot",
        value |-> [color_base |-> "ruby garnet",
                   color_hue |-> "#722F37",
                   opacity |-> 80,
                   texture |-> "plush velvety",
                   structure |-> "rounded soft",
                   visual_weight |-> "medium approachable",
                   characteristic_notes |-> << "plum", "chocolate", "vanilla", "leather" >>,
                   edge_quality |-> "gentle flowing",
                   composition |-> "harmonious welcoming generous"]],
       [key |-> "syrah",
        value |-> [color_base |-> "inky purple black",
                   color_hue |-> "#1A0F14",
                   opacity |-> 90,
                   texture |-> "dense smoky",
                   structure |-> "wild untamed powerful",
                   visual_weight |-> "full intense",
                   characteristic_notes |-> << "blackberry", "smoke", "pepper", "bacon_fat" >>,
                   edge_quality |-> "dramatic bold",
                   composition |-> "primal visceral dynamic"]],
       [key |-> "nebbiolo",
        value |-> [color_base |-> "garnet brick translucent",
                   color_hue |-> "#9B4F47",
                   opacity |-> 65,
                   texture |-> "grippy chalky tannic",
                   structure |-> "austere angular aristocratic",
                   visual_weight |-> "medium ethereal",
                   characteristic_notes |-> << "rose", "tar", "truffle", "dried_cherry" >>,
                   edge_quality |-> "sharp precise",
                   composition |-> "noble stern elegant"]],
       [key |-> "grenache",
        value |-> [color_base |-> "ruby translucent warm",
                   color_hue |-> "#A52A2A",
                   opacity |-> 70,
                   texture |-> "soft approachable",
                   structure |-> "rounded generous friendly",
                   visual_weight |-> "medium light",
                   characteristic_notes |-> << "strawberry", "raspberry", "white_pepper", "herbs" >>,
                   edge_quality |-> "soft flowing",
                   composition |-> "warm welcoming open"]],
       [key |-> "sangiovese",
        value |-> [color_base |-> "ruby bright",
                   color_hue |-> "#8B0000",
                   opacity |-> 75,
                   texture |-> "firm savory",
                   structure |-> "angular structured linear",
                   visual_weight |-> "medium bright",
                   characteristic_notes |-> << "cherry", "tomato", "herbs", "earth" >>,
                   edge_quality |-> "defined crisp",
                   composition |-> "savory focused precise"]],
       [key |-> "tempranillo",
        value |-> [color_base |-> "ruby garnet",
                   color_hue |-> "#8B2635",
                   opacity |-> 80,
                   texture |-> "medium-bodied balanced",
                   structure |-> "moderate structured",
                   visual_weight |-> "medium substantial",
                   characteristic_notes |-> << "cherry", "leather", "tobacco", "vanilla" >>,
                   edge_quality |-> "smooth defined",
                   composition |-> "balanced traditional composed"]],
       [key |-> "malbec",
        value |-> [color_base |-> "deep purple inky",
                   color_hue |-> "#2C0E3F",
                   opacity |-> 90,
                   texture |-> "plush dense",
                   structure |-> "full-bodied powerful",
                   visual_weight |-> "full dense",
                   characteristic_notes |-> << "blackberry", "plum", "chocolate", "violet" >>,
                   edge_quality |-> "soft deep",
                   composition |-> "lush opulent powerful"]],
       [key |-> "zinfandel",
        value |-> [color_base |-> "deep ruby purple",
                   color_hue |-> "#722F37",
                   opacity |-> 85,
                   texture |-> "bold jammy",
                   structure |-> "powerful intense",
                   visual_weight |-> "full heavy",
                   characteristic_notes |-> << "blackberry", "jam", "spice", "tobacco" >>,
                   edge_quality |-> "bold dramatic",
                   composition |-> "intense powerful exuberant"]],
       [key |-> "chardonnay",
        value |-> [color_base |-> "golden straw",
                   color_hue |-> "#F4E4C1",
                   opacity |-> 85,
                   texture |-> "creamy rich",
                   structure |-> "full-bodied opulent",
                   visual_weight |-> "medium to full",
                   characteristic_notes |-> << "apple", "butter", "vanilla", "hazelnut" >>,
                   edge_quality |-> "smooth rounded",
                   composition |-> "luxurious generous expansive"]],
       [key |-> "sauvignon_blanc",
        value |-> [color_base |-> "pale straw green-tinged",
                   color_hue |-> "#F5F5DC",
                   opacity |-> 90,
                   texture |-> "crisp electric",
                   structure |-> "lean racy angular",
                   visual_weight |-> "light precise",
                   characteristic_notes |-> << "grapefruit", "grass", "gooseberry", "flint" >>,
                   edge_quality |-> "sharp cutting",
                   composition |-> "vibrant energetic focused"]],
       [key |-> "riesling",
        value |-> [color_base |-> "pale yellow crystalline",
                   color_hue |-> "#FFFACD",
                   opacity |-> 95,
                   texture |-> "crystalline pure",
                   structure |-> "taut precise delicate",
                   visual_weight |-> "light to medium",
                   characteristic_notes |-> << "lime", "petrol", "honey", "slate" >>,
                   edge_quality |-> "razor-sharp brilliant",
                   composition |-> "luminous transparent exact"]],
       [key |-> "viognier",
        value |-> [color_base |-> "deep golden",
                   color_hue |-> "#FFD700",
                   opacity |-> 80,
                   texture |-> "viscous oily",
                   structure |-> "full perfumed exotic",
                   visual_weight |-> "full voluptuous",
                   characteristic_notes |-> << "apricot", "honeysuckle", "peach", "ginger" >>,
                   edge_quality |-> "soft blurred aromatic",
                   composition |-> "sensuous heady intoxicating"]],
       [key |-> "pinot_grigio",
        value |-> [color_base |-> "pale straw light",
                   color_hue |-> "#F5F5DC",
                   opacity |-> 90,
                   texture |-> "light crisp",
                   structure |-> "simple clean refreshing",
                   visual_weight |-> "light delicate",
                   characteristic_notes |-> << "lemon", "apple", "pear", "almond" >>,
                   edge_quality |-> "clean sharp",
                   composition |-> "simple direct refreshing"]],
       [key |-> "chenin_blanc",
        value |-> [color_base |-> "golden straw",
                   color_hue |-> "#F4E4C1",
                   opacity |-> 85,
                   texture |-> "waxy honeyed",
                   structure |-> "versatile complex",
                   visual_weight |-> "medium rich",
                   characteristic_notes |-> << "honey", "quince", "chamomile", "ginger" >>,
                   edge_quality |-> "smooth textured",
                   composition |-> "complex textural layered"]],
       [key |-> "gewurztraminer",
        value |-> [color_base |-> "deep golden",
                   color_hue |-> "#FFD700",
                   opacity |-> 82,
                   texture |-> "oily perfumed",
                   structure |-> "exotic aromatic spicy",
                   visual_weight |-> "medium full",
                   characteristic_notes |-> << "lychee", "rose", "ginger", "spice" >>,
                   edge_quality |-> "aromatic diffused",
                   composition |-> "exotic perfumed intense"]],
       [key |-> "albariño",
        value |-> [color_base |-> "pale yellow green-tinged",
                   color_hue |-> "#FFFACD",
                   opacity |-> 90,
                   texture |-> "fresh saline",
                   structure |-> "crisp coastal bright",
                   visual_weight |-> "light medium",
                   characteristic_notes |-> << "citrus", "peach", "saline", "minerals" >>,
                   edge_quality |-> "bright clean",
                   composition |-> "fresh coastal vibrant"]]
    >>

\* Keyed by the ClimateType's value; the adjustments in hundredths.
CLIMATE_MODIFIERS ==
    <<
       [key |-> "cool",
        value |-> [color_shift |-> "lighter brighter",
                   saturation_adjust |-> -15,
                   brightness_adjust |-> 10,
                   texture_modifier |-> "crisp angular tense",
                   atmosphere |-> "cool restrained mineral",
                   visual_tension |-> "high precise",
                   edge_treatment |-> "sharp defined"]],
       [key |-> "moderate",
        value |-> [color_shift |-> "balanced",
                   saturation_adjust |-> 0,
                   brightness_adjust |-> 0,
                   texture_modifier |-> "harmonious integrated",
                   atmosphere |-> "temperate balanced elegant",
                   visual_tension |-> "medium composed",
                   edge_treatment |-> "clean refined"]],
       [key |-> "warm",
        value |-> [color_shift |-> "deeper richer",
                   saturation_adjust |-> 10,
                   brightness_adjust |-> -5,
                   texture_modifier |-> "soft ripe generous",
                   atmosphere |-> "warm sun-drenched opulent",
                   visual_tension |-> "low relaxed",
                   edge_treatment |-> "soft blended"]],
       [key |-> "hot",
        value |-> [color_shift |-> "intense dark",
                   saturation_adjust |-> 20,
                   brightness_adjust |-> -15,
                   texture_modifier |-> "jammy concentrated thick",
                   atmosphere |-> "hot intense powerful",
                   visual_tension |-> "very low heavy",
                   edge_treatment |-> "blurred diffused"]]
    >>

\* Keyed by the WinemakingStyle's value.
WINEMAKING_STYLE_MODIFIERS ==
    <<
       [key |-> "old_world",
        value |-> [aesthetic |-> "restrained mineral earthy",
                   composition |-> "subtle understated elegant",
                   color_treatment |-> "muted sophisticated tertiary",
                   detail_level |-> "fine precise intricate",
                   atmosphere |-> "cool stone cellar ancient"]],
       [key |-> "new_world",
        value |-> [aesthetic |-> "fruit-forward bold exuberant",
                   composition |-> "generous obvious accessible",
                   color_treatment |-> "vibrant primary saturated",
                   detail_level |-> "bold clear direct",
                   atmosphere |-> "sunny modern open"]]
    >>

\* Keyed by the OakTreatment's value.
OAK_CHARACTERISTICS ==
    <<
       [key |-> "none",
        value |-> [texture_overlay |-> "pure clean unadulterated",
                   color_influence |-> "none",
                   finish_quality |-> "bright transparent",
                   material_reference |-> "glass crystal water"]],
       [key |-> "neutral",
        value |-> [texture_overlay |-> "subtle softened rounded",
                   color_influence |-> "minimal slight warmth",
                   finish_quality |-> "smooth integrated",
                   material_reference |-> "aged_wood smooth_stone"]],
       [key |-> "french_oak",
        value |-> [texture_overlay |-> "silky refined spice",
                   color_influence |-> "golden vanilla subtle toast",
                   finish_quality |-> "elegant sophisticated polished",
                   material_reference |-> "fine_wood polished_bronze"]],
       [key |-> "american_oak",
        value |-> [texture_overlay |-> "bold creamy coconut",
                   color_influence |-> "deep amber vanilla caramel",
                   finish_quality |-> "rich obvious sweet",
                   material_reference |-> "charred_wood bourbon_barrel"]],
       [key |-> "mixed_oak",
        value |-> [texture_overlay |-> "complex layered spice-sweet",
                   color_influence |-> "warm amber golden vanilla",
                   finish_quality |-> "balanced nuanced",
                   material_reference |-> "varied_wood aged_patina"]]
    >>

\* Keyed by the AgeCategory's value.
AGE_TRANSFORMATIONS ==
    <<
       [key |-> "youthful",
        value |-> [color_evolution |-> "vibrant primary bright",
                   red_color_shift |-> "purple ruby",
                   white_color_shift |-> "pale straw green-tinged",
                   aromatic_category |-> "primary fruit-forward fresh",
                   texture_state |-> "taut structured firm",
                   integration |-> "separate distinct angular",
                   visual_clarity |-> "brilliant star-bright",
                   time_signature |-> "present immediate vivid"]],
       [key |-> "developing",
        value |-> [color_evolution |-> "deepening softening",
                   red_color_shift |-> "garnet ruby-brick",
                   white_color_shift |-> "golden straw",
                   aromatic_category |-> "secondary developing complex",
                   texture_state |-> "integrating softening",
                   integration |-> "blending harmonizing",
                   visual_clarity |-> "bright clear",
                   time_signature |-> "transitional evolving"]],
       [key |-> "mature",
        value |-> [color_evolution |-> "tertiary evolved",
                   red_color_shift |-> "brick garnet tawny-edge",
                   white_color_shift |-> "deep-gold amber",
                   aromatic_category |-> "tertiary developed savory",
                   texture_state |-> "silky resolved integrated",
                   integration |-> "seamless unified complete",
                   visual_clarity |-> "clear luminous",
                   time_signature |-> "patient wise settled"]],
       [key |-> "past_prime",
        value |-> [color_evolution |-> "fading oxidized",
                   red_color_shift |-> "brown tawny brick-brown",
                   white_color_shift |-> "deep-amber brown-tinged",
                   aromatic_category |-> "fading oxidized tired",
                   texture_state |-> "thin drying out",
                   integration |-> "falling apart disjointed",
                   visual_clarity |-> "dull fading",
                   time_signature |-> "past declining fragile"]]
    >>

\* The aroma clusters, in declaration order.
AROMA_CLUSTERS ==
    <<
       [key |-> "red_fruit",
        value |-> [notes |-> << "cherry", "raspberry", "strawberry", "cranberry", "red_currant" >>,
                   color_palette |-> << "#DC143C", "#C71585", "#FF6B6B", "#E74C3C" >>,
                   brightness |-> "bright vivid fresh",
                   texture |-> "juicy tart crisp"]],
       [key |-> "black_fruit",
        value |-> [notes |-> << "blackberry", "blackcurrant", "black_cherry", "plum", "blueberry" >>,
                   color_palette |-> << "#1A0F14", "#2C1810", "#4A0E4E", "#191970" >>,
                   brightness |-> "deep dark concentrated",
                   texture |-> "dense rich powerful"]],
       [key |-> "stone_fruit",
        value |-> [notes |-> << "peach", "apricot", "nectarine", "plum" >>,
                   color_palette |-> << "#FFDAB9", "#FFB347", "#FF8C69", "#DDA0DD" >>,
                   brightness |-> "warm glowing ripe",
                   texture |-> "soft luscious velvety"]],
       [key |-> "citrus",
        value |-> [notes |-> << "lemon", "lime", "grapefruit", "orange_zest" >>,
                   color_palette |-> << "#FFF44F", "#BFFF00", "#FF6F61", "#FFD700" >>,
                   brightness |-> "electric vibrant zesty",
                   texture |-> "sharp crisp cutting"]],
       [key |-> "tropical",
        value |-> [notes |-> << "pineapple", "mango", "passion_fruit", "lychee", "guava" >>,
                   color_palette |-> << "#FFD700", "#FF8C00", "#FF69B4", "#F0E68C" >>,
                   brightness |-> "exotic bright heady",
                   texture |-> "lush voluptuous perfumed"]],
       [key |-> "earth_mineral",
        value |-> [notes |-> << "wet_stone", "slate", "chalk", "graphite", "flint", "petrichor" >>,
                   color_palette |-> << "#708090", "#696969", "#A9A9A9", "#2F4F4F" >>,
                   brightness |-> "cool muted subtle",
                   texture |-> "dry stony mineral"]],
       [key |-> "forest_floor",
        value |-> [notes |-> << "mushroom", "truffle", "forest_floor", "damp_leaves", "soil" >>,
                   color_palette |-> << "#3E2723", "#5D4037", "#4E342E", "#654321" >>,
                   brightness |-> "dark earthy organic",
                   texture |-> "loamy dense humid"]],
       [key |-> "oak_spice",
        value |-> [notes |-> << "vanilla", "cinnamon", "clove", "nutmeg", "cedar", "toast" >>,
                   color_palette |-> << "#D2691E", "#CD853F", "#DEB887", "#8B4513" >>,
                   brightness |-> "warm amber golden",
                   texture |-> "smooth spicy aromatic"]],
       [key |-> "leather_tobacco",
        value |-> [notes |-> << "leather", "tobacco", "cigar_box", "dried_herbs" >>,
                   color_palette |-> << "#8B4513", "#654321", "#704214", "#3E2723" >>,
                   brightness |-> "aged patinated rich",
                   texture |-> "supple smooth aged"]],
       [key |-> "floral",
        value |-> [notes |-> << "rose", "violet", "honeysuckle", "jasmine", "orange_blossom" >>,
                   color_palette |-> << "#FFB6C1", "#DDA0DD", "#E6E6FA", "#FFF0F5" >>,
                   brightness |-> "delicate perfumed aromatic",
                   texture |-> "soft ethereal fragrant"]]
    >>

\* Keyed by finish_length.
FINISH_CHARACTERISTICS ==
    <<
       [key |-> "short",
        value |-> [length_descriptor |-> "brief fleeting",
                   edge_treatment |-> "abrupt clean",
                   fade_pattern |-> "rapid quick dissipating",
                   atmospheric_depth |-> "shallow immediate"]],
       [key |-> "medium",
        value |-> [length_descriptor |-> "moderate sustained",
                   edge_treatment |-> "gradual smooth",
                   fade_pattern |-> "steady even balanced",
                   atmospheric_depth |-> "middle-ground present"]],
       [key |-> "long",
        value |-> [length_descriptor |-> "persistent lingering",
                   edge_treatment |-> "extended soft",
                   fade_pattern |-> "slow gradual evolving",
                   atmospheric_depth |-> "deep receding distant"]],
       [key |-> "very_long",
        value |-> [length_descriptor |-> "endless immortal",
                   edge_treatment |-> "infinite dissolving",
                   fade_pattern |-> "complex ever-changing eternal",
                   atmospheric_depth |-> "vast infinite horizon"]]
    >>

\* The presets of create_regional_preset; the five levels in tenths.
region_presets ==
    <<
       [key |-> "burgundy_red",
        value |-> [varietal |-> "pinot_noir",
                   climate |-> "cool",
                   winemaking_style |-> "old_world",
                   oak_treatment |-> "french_oak",
                   age |-> "developing",
                   acidity |-> 75,
                   tannin |-> 60,
                   sweetness |-> 20,
                   alcohol |-> 65,
                   body |-> 55,
                   finish_length |-> "long",
                   primary_aromas |-> << "cherry", "mushroom", "rose" >>]],
       [key |-> "burgundy_white",
        value |-> [varietal |-> "chardonnay",
                   climate |-> "cool",
                   winemaking_style |-> "old_world",
                   oak_treatment |-> "french_oak",
                   age |-> "developing",
                   acidity |-> 70,
                   tannin |-> 0,
                   sweetness |-> 20,
                   alcohol |-> 65,
                   body |-> 70,
                   finish_length |-> "long",
                   primary_aromas |-> << "apple", "hazelnut", "toast" >>]],
       [key |-> "napa_cabernet",
        value |-> [varietal |-> "cabernet_sauvignon",
                   climate |-> "warm",
                   winemaking_style |-> "new_world",
                   oak_treatment |-> "american_oak",
                   age |-> "youthful",
                   acidity |-> 55,
                   tannin |-> 85,
                   sweetness |-> 25,
                   alcohol |-> 85,
                   body |-> 90,
                   finish_length |-> "very_long",
                   primary_aromas |-> << "blackcurrant", "vanilla", "cedar" >>]],
       [key |-> "rioja_tempranillo",
        value |-> [varietal |-> "tempranillo",
                   climate |-> "moderate",
                   winemaking_style |-> "old_world",
                   oak_treatment |-> "american_oak",
                   age |-> "mature",
                   acidity |-> 60,
                   tannin |-> 65,
                   sweetness |-> 20,
                   alcohol |-> 65,
                   body |-> 65,
                   finish_length |-> "medium",
                   primary_aromas |-> << "cherry", "leather", "vanilla", "dried_herbs" >>]],
       [key |-> "mosel_riesling",
        value |-> [varietal |-> "riesling",
                   climate |-> "cool",
                   winemaking_style |-> "old_world",
                   oak_treatment |-> "none",
                   age |-> "youthful",
                   acidity |-> 90,
                   tannin |-> 0,
                   sweetness |-> 40,
                   alcohol |-> 45,
                   body |-> 40,
                   finish_length |-> "long",
                   primary_aromas |-> << "lime", "slate", "petrol" >>]],
       [key |-> "barolo",
        value |-> [varietal |-> "nebbiolo",
                   climate |-> "moderate",
                   winemaking_style |-> "old_world",
                   oak_treatment |-> "neutral",
                   age |-> "mature",
                   acidity |-> 85,
                   tannin |-> 90,
                   sweetness |-> 15,
                   alcohol |-> 75,
                   body |-> 70,
                   finish_length |-> "very_long",
                   primary_aromas |-> << "rose", "tar", "truffle", "dried_cherry" >>]],
       [key |-> "rhone_syrah",
        value |-> [varietal |-> "syrah",
                   climate |-> "moderate",
                   winemaking_style |-> "old_world",
                   oak_treatment |-> "french_oak",
                   age |-> "developing",
                   acidity |-> 60,
                   tannin |-> 75,
                   sweetness |-> 20,
                   alcohol |-> 70,
                   body |-> 80,
                   finish_length |-> "long",
                   primary_aromas |-> << "blackberry", "pepper", "smoke" >>]],
       [key |-> "marlborough_sauvignon",
        value |-> [varietal |-> "sauvignon_blanc",
                   climate |-> "cool",
                   winemaking_style |-> "new_world",
                   oak_treatment |-> "none",
                   age |-> "youthful",
                   acidity |-> 85,
                   tannin |-> 0,
                   sweetness |-> 15,
                   alcohol |-> 60,
                   body |-> 50,
                   finish_length |-> "medium",
                   primary_aromas |-> << "grapefruit", "grass", "gooseberry" >>]]
    >>

\* red_varietals of is_red_varietal.
red_varietals ==
    { "pinot_noir",
      "cabernet_sauvignon",
      "merlot",
      "syrah",
      "grenache",
      "nebbiolo",
      "sangiovese",
      "tempranillo",
      "malbec",
      "zinfandel" }

\* str.lower() of the strings that it changes, among those the callers pass.
LowerTable ==
    <<
       [key |-> "Pinot_Noir", value |-> "pinot_noir"],
       [key |-> "RIESLING", value |-> "riesling"],
       [key |-> "Warm", value |-> "warm"],
       [key |-> "NEW_WORLD", value |-> "new_world"],
       [key |-> "None", value |-> "none"],
       [key |-> "Mature", value |-> "mature"],
       [key |-> "Cherry", value |-> "cherry"],
       [key |-> "Petrol", value |-> "petrol"],
       [key |-> "Mosel Riesling", value |-> "mosel riesling"]
    >>

\* str.replace(" ", "_") of the lower-case strings that it changes.
UnderscoreTable ==
    <<
       [key |-> "mosel riesling", value |-> "mosel_riesling"]
    >>

\* (acidity, tannin), in tenths from 0.0 to 10.0, at which the double
\* (acidity / 10.0 + tannin / 10.0) / 2 lies above an exact score of 0.45 or
\* 0.65.  get_visual_weight's double score never leaves its exact value's side.
TensionRoundsAbove ==
    { <<2, 88>>,
      <<6, 84>>,
      <<21, 69>>,
      <<31, 59>>,
      <<42, 88>>,
      <<59, 31>>,
      <<69, 21>>,
      <<84, 6>>,
      <<88, 2>>,
      <<88, 42>> }

\* ------------------------------------------------------------- the state
VARIABLES
    WINE_PARAMETER_NAMES,   \* the five axes, in declared order
    WINE_TASTING_COORDS,    \* canonical states
    WINE_RHYTHMIC_PRESETS,  \* curated presets
    WINE_VISUAL_TYPES,      \* archetypes: coords, keywords, optical properties
    pc,                     \* "idle", "returned" or "raised"
    call,                   \* the tool invocation being served
    result,                 \* what it returned, or the exception it raised
    _TAXONOMY_CACHE,        \* the taxonomy as loaded, or None
    taxonomy_file,          \* the text of wine_tasting_olog.yaml
    file_opens              \* how many times that file has been opened

registries ==
    << WINE_PARAMETER_NAMES, WINE_TASTING_COORDS, WINE_RHYTHMIC_PRESETS,
       WINE_VISUAL_TYPES >>

taxonomy == << _TAXONOMY_CACHE, taxonomy_file, file_opens >>

vars == << WINE_PARAMETER_NAMES, WINE_TASTING_COORDS, WINE_RHYTHMIC_PRESETS,
           WINE_VISUAL_TYPES, pc, call, result, _TAXONOMY_CACHE, taxonomy_file,
           file_opens >>

NoCall == [op |-> "none"]

NoResult == [none |-> TRUE]

\* yaml.safe_load of the taxonomy file's text: None for an empty document,
\* else the document, which stands for itself.
None == [none |-> TRUE]

YamlSafeLoad(text) == IF text = "" THEN None ELSE [document |-> text]

\* The registries as declared, no request in hand, and the taxonomy as the
\* import's TAXONOMY = _load_taxonomy() left it: the file opened once.
Imported(text) ==
    /\ WINE_PARAMETER_NAMES = InitialParameterNames
    /\ WINE_TASTING_COORDS = InitialTastingCoords
    /\ WINE_RHYTHMIC_PRESETS = InitialRhythmicPresets
    /\ WINE_VISUAL_TYPES = InitialVisualTypes
    /\ pc = "idle"
    /\ call = NoCall
    /\ result = NoResult
    /\ taxonomy_file = text
    /\ _TAXONOMY_CACHE = YamlSafeLoad(text)
    /\ file_opens = 1

\* A taxonomy file that holds a mapping.
TaxonomyDocument == "domain: wine_tasting"

\* The morphospace tools start from an import that found a taxonomy.
Init == Imported(TaxonomyDocument)
\* ------------------------------------------ layer 2: deterministic helpers
\* sin of a whole number of degrees, scaled by SinScale.
SinDeg(k) ==
    LET d == k % 360
    IN  IF d <= 90 THEN SinTable[d + 1]
        ELSE IF d <= 180 THEN SinTable[180 - d + 1]
        ELSE IF d <= 270 THEN -SinTable[d - 180 + 1]
        ELSE -SinTable[360 - d + 1]

\* math.sin(2 * pi * num / den), den > 0, scaled by SinScale: the table at
\* whole degrees, linear between them.
Sin(num, den) ==
    LET a    == (360 * num) % (360 * den)
        deg  == a \div den
        frac == a % den
    IN  IF frac = 0 THEN SinDeg(deg)
        ELSE SinDeg(deg) + RoundDiv((SinDeg(deg + 1) - SinDeg(deg)) * frac, den)

\* The exact value of (ti / (2.0 * math.pi)) % 1.0 at step i, as a count of
\* 1/num_steps.
PhaseNum(num_steps, num_cycles, i) == (num_cycles * i) % num_steps

\* Whether the computed phase is in the first half of the cycle
\* (t_norm < 0.5).  Where the exact phase is 0 or 1/2 the IEEE-754 result may
\* be one ulp below it: an exact 0 then wraps to just under 1, and an exact
\* 1/2 falls in the first half.
InFirstHalf(num_steps, num_cycles, i) ==
    LET u == PhaseNum(num_steps, num_cycles, i)
        below == <<num_steps, num_cycles, i>> \in PhaseRoundsBelow
    IN  IF u = 0 THEN ~below
        ELSE IF 2 * u = num_steps THEN below
        ELSE 2 * u < num_steps

KnownPatterns == {"sinusoidal", "triangular", "square"}

\* The else branch of _generate_wine_oscillation: raise ValueError.
OscillationRaises(pattern) == pattern \notin KnownPatterns

Sinusoidal(num_steps, num_cycles, i) ==
    [num |-> SinScale + Sin(num_cycles * i, num_steps), den |-> 2 * SinScale]

Triangular(num_steps, num_cycles, i) ==
    LET u == PhaseNum(num_steps, num_cycles, i)
    IN  IF 2 * u < num_steps
        THEN [num |-> 2 * u, den |-> num_steps]
        ELSE [num |-> 2 * (num_steps - u), den |-> num_steps]

Square(num_steps, num_cycles, i) ==
    IF InFirstHalf(num_steps, num_cycles, i)
    THEN [num |-> 0, den |-> 1]
    ELSE [num |-> 1, den |-> 1]

\* The envelope of a known pattern: one blend factor per step i in
\* range(num_steps), here at index i + 1; empty when num_steps <= 0.
_generate_wine_oscillation(num_steps, num_cycles, pattern) ==
    [k \in 1..num_steps |->
        IF pattern = "sinusoidal" THEN Sinusoidal(num_steps, num_cycles, k - 1)
        ELSE IF pattern = "triangular" THEN Triangular(num_steps, num_cycles, k - 1)
        ELSE Square(num_steps, num_cycles, k - 1)]

\* round(base + delta * alpha) for integers base, delta (|delta| <= Unit)
\* and a fraction alpha with denominator at most 2 * SinScale, in steps
\* that stay within 32-bit integers: delta = 100 * d1 + d0.
RoundAffine(base, delta, alpha) ==
    LET d1 == delta \div 100
        d0 == delta % 100
        p1 == d1 * alpha.num
        t  == 100 * (p1 % alpha.den) + d0 * alpha.num
        q  == base + 100 * (p1 \div alpha.den) + t \div alpha.den
        r  == t % alpha.den
    IN  IF 2 * r < alpha.den THEN q
        ELSE IF 2 * r > alpha.den THEN q + 1
        ELSE IF q % 2 = 0 THEN q ELSE q + 1

\* The blend had the code left out the factor (1.0 - alpha):
\* a[p] + b[p] * alpha.
BlendWithoutComplement(a, b, alpha) ==
    [p \in {WINE_PARAMETER_NAMES[i] : i \in 1..Len(WINE_PARAMETER_NAMES)} |->
        [base |-> a[p], delta |-> b[p], alpha |-> alpha]]

\* The blend had the code swapped the two weights:
\* a[p] * alpha + b[p] * (1.0 - alpha).
BlendSwapped(a, b, alpha) ==
    [p \in {WINE_PARAMETER_NAMES[i] : i \in 1..Len(WINE_PARAMETER_NAMES)} |->
        [base |-> b[p], delta |-> a[p] - b[p], alpha |-> alpha]]

\* a[p] * (1.0 - alpha) + b[p] * alpha on every axis, not yet rounded: the
\* value base + delta * alpha, kept exactly.
Blend(a, b, alpha) ==
    [p \in {WINE_PARAMETER_NAMES[i] : i \in 1..Len(WINE_PARAMETER_NAMES)} |->
        [base |-> a[p], delta |-> b[p] - a[p], alpha |-> alpha]]

\* The interpolation had the code looked up state_a_id twice
\* (b = WINE_TASTING_COORDS[state_a_id]).
InterpolateFromStateAOnly(state_a_id, state_b_id, alpha) ==
    Blend(Get(WINE_TASTING_COORDS, state_a_id),
          Get(WINE_TASTING_COORDS, state_a_id), alpha)

_interpolate_wine_states(state_a_id, state_b_id, alpha) ==
    Blend(Get(WINE_TASTING_COORDS, state_a_id),
          Get(WINE_TASTING_COORDS, state_b_id), alpha)

\* round(v, 4) of an unrounded coordinate.
Round4(v) == RoundAffine(v.base, v.delta, v.alpha)

\* round(alpha, 4) of a fraction of one.
RoundFraction(alpha) == RoundAffine(0, Unit, alpha)

\* {p: round(v, 4) for p, v in state.items()}
RoundState(state) == [p \in DOMAIN state |-> Round4(state[p])]

\* state[p] is defined for every declared axis (no KeyError).
HasAllAxes(state) ==
    \A i \in 1..Len(WINE_PARAMETER_NAMES) : WINE_PARAMETER_NAMES[i] \in DOMAIN state

\* The distance had the code subtracted state1 from itself:
\* (state1[p] - state1[p]) ** 2.
DistanceOfFirstToItself(state1, state2) ==
    SumSeq([i \in 1..Len(WINE_PARAMETER_NAMES) |->
               (state1[WINE_PARAMETER_NAMES[i]] - state1[WINE_PARAMETER_NAMES[i]])
             * (state1[WINE_PARAMETER_NAMES[i]] - state1[WINE_PARAMETER_NAMES[i]])])

\* The distance had the code left out the last declared axis
\* (for p in WINE_PARAMETER_NAMES[:-1]).
DistanceWithoutLastAxis(state1, state2) ==
    SumSeq([i \in 1..(Len(WINE_PARAMETER_NAMES) - 1) |->
               (state1[WINE_PARAMETER_NAMES[i]] - state2[WINE_PARAMETER_NAMES[i]])
             * (state1[WINE_PARAMETER_NAMES[i]] - state2[WINE_PARAMETER_NAMES[i]])])

\* The distance between two states on all five axes.  A distance is kept as
\* its exact square (units of 1/Unit^2) until it is rounded: sqrt is
\* increasing, so comparing squares compares distances.
_euclidean_distance_wine(state1, state2) ==
    SumSeq([i \in 1..Len(WINE_PARAMETER_NAMES) |->
               (state1[WINE_PARAMETER_NAMES[i]] - state2[WINE_PARAMETER_NAMES[i]])
             * (state1[WINE_PARAMETER_NAMES[i]] - state2[WINE_PARAMETER_NAMES[i]])])

\* round(dist, 4)
RoundDistance(dist) == RoundSqrt(dist)

\* float('inf'): above every squared distance.
Infinity == 2147483647

\* A state's values in declared axis order.
StateTuple(state) ==
    [i \in 1..Len(WINE_PARAMETER_NAMES) |-> state[WINE_PARAMETER_NAMES[i]]]

\* The comparison had the code written dist <= min_dist.
CloserOrEqual(state, type_id, dist, best) ==
    dist <= best.min_dist

\* if dist < min_dist, for dist the distance from state to type_id and
\* best the (nearest, min_dist) so far.  Two distances whose exact values
\* are equal may still differ as doubles: DoubleTieBreaks lists where.
Closer(state, type_id, dist, best) ==
    \/ dist < best.min_dist
    \/ /\ dist = best.min_dist
       /\ <<StateTuple(state), type_id, best.nearest>> \in DoubleTieBreaks

RECURSIVE NearestScan(_, _, _)
\* The loop of _find_nearest_wine_visual_type from entry i on, best being
\* (nearest, min_dist) so far.
NearestScan(state, i, best) ==
    IF i > Len(WINE_VISUAL_TYPES) THEN best
    ELSE LET dist == _euclidean_distance_wine(state, WINE_VISUAL_TYPES[i].value.coords)
         IN  NearestScan(state, i + 1,
                 IF Closer(state, WINE_VISUAL_TYPES[i].key, dist, best)
                 THEN [nearest |-> WINE_VISUAL_TYPES[i].key, min_dist |-> dist]
                 ELSE best)

\* The scan had the loop started at the second archetype.
FindNearestAfterFirst(state) ==
    NearestScan(state, 2, [nearest |-> "None", min_dist |-> Infinity])

_find_nearest_wine_visual_type(state) ==
    NearestScan(state, 1, [nearest |-> "None", min_dist |-> Infinity])

\* The sequence had the loop stopped one step early
\* (zip(range(total_steps - 1), alphas)).
PresetSequenceOneShort(preset_name) ==
    LET preset      == Get(WINE_RHYTHMIC_PRESETS, preset_name)
        total_steps == preset.num_cycles * preset.steps_per_cycle
        alphas      == _generate_wine_oscillation(total_steps, preset.num_cycles,
                                                  preset.pattern)
    IN  [k \in 1..(Len(alphas) - 1) |->
            [step         |-> k - 1,
             phase        |-> [num |-> k - 1, den |-> total_steps],
             blend_factor |-> RoundFraction(alphas[k]),
             state        |-> RoundState(_interpolate_wine_states(
                                  preset.state_a, preset.state_b, alphas[k]))]]

\* The full sequence of a preset; phase is i / total_steps, not rounded.
_generate_wine_preset_sequence(preset_name) ==
    LET preset      == Get(WINE_RHYTHMIC_PRESETS, preset_name)
        total_steps == preset.num_cycles * preset.steps_per_cycle
        alphas      == _generate_wine_oscillation(total_steps, preset.num_cycles,
                                                  preset.pattern)
    IN  [k \in 1..Len(alphas) |->
            [step         |-> k - 1,
             phase        |-> [num |-> k - 1, den |-> total_steps],
             blend_factor |-> RoundFraction(alphas[k]),
             state        |-> RoundState(_interpolate_wine_states(
                                  preset.state_a, preset.state_b, alphas[k]))]]

\* --------------------------------------------------------------- the tools
\* Each tool is the JSON document it returns (a record with exactly the keys
\* the code emits; a message is the sequence of its literal and interpolated
\* parts) or the exception that leaves it.

get_wine_tasting_types ==
    Returned([i \in 1..Len(WINE_VISUAL_TYPES) |->
        [key   |-> WINE_VISUAL_TYPES[i].key,
         value |-> [coords          |-> WINE_VISUAL_TYPES[i].value.coords,
                    keyword_preview |-> Slice(WINE_VISUAL_TYPES[i].value.keywords, 0, 3),
                    optical_finish  |->
                        WINE_VISUAL_TYPES[i].value.optical_properties.finish]]])

get_wine_tasting_specifications(wine_type_id) ==
    IF ~Has(WINE_VISUAL_TYPES, wine_type_id)
    THEN Returned([error     |-> <<"Unknown type '", wine_type_id, "'">>,
                   available |-> Keys(WINE_VISUAL_TYPES)])
    ELSE LET data == Get(WINE_VISUAL_TYPES, wine_type_id)
         IN  Returned([type_id               |-> wine_type_id,
                       parameter_coordinates |-> data.coords,
                       visual_keywords       |-> data.keywords,
                       optical_properties    |-> data.optical_properties,
                       parameter_names       |-> WINE_PARAMETER_NAMES])

\* intensity_map.get(intensity, 1.0), in units of 1/WeightUnit.
IntensityMultiplier(intensity) ==
    IF intensity = "subtle" THEN 50
    ELSE IF intensity = "dramatic" THEN 150
    ELSE 100

\* emphasis_keyword_indices.get(emphasis, [0])
EmphasisBoosted(emphasis) ==
    IF emphasis = "finish" THEN {0, 5}
    ELSE IF emphasis = "texture" THEN {1, 3}
    ELSE IF emphasis = "color" THEN {0, 2}
    ELSE IF emphasis = "aroma" THEN {2, 4, 5}
    ELSE IF emphasis = "structure" THEN {1, 3, 5}
    ELSE {0}

\* The weight had the loop counted keywords from one
\* (enumerate(data["keywords"], 1)).
KeywordWeightCountedFromOne(mult, i, boosted) ==
    IF (i + 1) \in boosted THEN RoundDiv(mult * 3, 2) ELSE mult

\* round(mult * (1.5 if i in boosted else 1.0), 2)
KeywordWeight(mult, i, boosted) ==
    IF i \in boosted THEN RoundDiv(mult * 3, 2) ELSE mult

map_wine_tasting_parameters(wine_type_id, intensity, emphasis) ==
    IF ~Has(WINE_VISUAL_TYPES, wine_type_id)
    THEN Returned([error     |-> <<"Unknown type '", wine_type_id, "'">>,
                   available |-> Keys(WINE_VISUAL_TYPES)])
    ELSE LET data    == Get(WINE_VISUAL_TYPES, wine_type_id)
             mult    == IntensityMultiplier(intensity)
             boosted == EmphasisBoosted(emphasis)
         IN  Returned([wine_type             |-> wine_type_id,
                       intensity             |-> intensity,
                       emphasis              |-> emphasis,
                       parameter_coordinates |-> data.coords,
                       weighted_keywords     |->
                           [k \in 1..Len(data.keywords) |->
                               [keyword |-> data.keywords[k],
                                weight  |-> KeywordWeight(mult, k - 1, boosted)]],
                       optical_properties    |-> data.optical_properties])

compute_wine_tasting_distance(wine_type_id_1, wine_type_id_2) ==
    IF ~Has(WINE_VISUAL_TYPES, wine_type_id_1) \/ ~Has(WINE_VISUAL_TYPES, wine_type_id_2)
    THEN Returned([error     |-> <<"Unknown wine type(s)">>,
                   available |-> Keys(WINE_VISUAL_TYPES)])
    ELSE LET c1 == Get(WINE_VISUAL_TYPES, wine_type_id_1).coords
             c2 == Get(WINE_VISUAL_TYPES, wine_type_id_2).coords
         IN  Returned([wine_type_1        |-> wine_type_id_1,
                       wine_type_2        |-> wine_type_id_2,
                       euclidean_distance |-> RoundDistance(_euclidean_distance_wine(c1, c2)),
                       per_parameter      |->
                           [p \in {WINE_PARAMETER_NAMES[i] : i \in 1..Len(WINE_PARAMETER_NAMES)} |->
                               Abs(c1[p] - c2[p])]])

\* key=lambda p: abs(end_coords[p] - start_coords[p]), for the i-th name.
AxisChange(start_coords, end_coords, i) ==
    Abs(end_coords[WINE_PARAMETER_NAMES[i]] - start_coords[WINE_PARAMETER_NAMES[i]])

RECURSIVE MaxScan(_, _, _, _)
\* max() from the i-th name on: a name replaces the best so far when its key
\* is greater.
MaxScan(start_coords, end_coords, i, best) ==
    IF i > Len(WINE_PARAMETER_NAMES) THEN best
    ELSE MaxScan(start_coords, end_coords, i + 1,
                 IF AxisChange(start_coords, end_coords, i)
                    > AxisChange(start_coords, end_coords, best)
                 THEN i ELSE best)

\* max() keeping the last of the names with the greatest key.
LastBiggestChangeParam(start_coords, end_coords) ==
    LET last == CHOOSE i \in 1..Len(WINE_PARAMETER_NAMES) :
                    /\ \A j \in 1..Len(WINE_PARAMETER_NAMES) :
                           AxisChange(start_coords, end_coords, j)
                           <= AxisChange(start_coords, end_coords, i)
                    /\ \A j \in (i + 1)..Len(WINE_PARAMETER_NAMES) :
                           AxisChange(start_coords, end_coords, j)
                           < AxisChange(start_coords, end_coords, i)
    IN  WINE_PARAMETER_NAMES[last]

\* max() with key=lambda p: end_coords[p] - start_coords[p], the abs() left out.
SignedBiggestChangeParam(start_coords, end_coords) ==
    LET rise(i) == end_coords[WINE_PARAMETER_NAMES[i]]
                   - start_coords[WINE_PARAMETER_NAMES[i]]
        first == CHOOSE i \in 1..Len(WINE_PARAMETER_NAMES) :
                    /\ \A j \in 1..Len(WINE_PARAMETER_NAMES) : rise(j) <= rise(i)
                    /\ \A j \in 1..(i - 1) : rise(j) < rise(i)
    IN  WINE_PARAMETER_NAMES[first]

\* max(WINE_PARAMETER_NAMES, key=lambda p: abs(end_coords[p] - start_coords[p]))
BiggestChangeParam(start_coords, end_coords) ==
    WINE_PARAMETER_NAMES[MaxScan(start_coords, end_coords, 2, 1)]

\* The sample had the code divided by the number of samples:
\* t = i / (num_steps + 1).
TrajectorySampleOverCount(start, end, num_steps, i) ==
    LET t       == [num |-> i, den |-> num_steps + 1]
        state   == RoundState(Blend(start, end, t))
        nearest == _find_nearest_wine_visual_type(state)
    IN  [step                |-> i,
         t                   |-> RoundAffine(0, TUnit, t),
         state               |-> state,
         nearest_visual_type |-> nearest.nearest,
         distance_to_nearest |-> RoundDistance(nearest.min_dist)]

\* One sample of the trajectory: t = i / num_steps.
TrajectorySample(start, end, num_steps, i) ==
    LET t       == [num |-> i, den |-> num_steps]
        state   == RoundState(Blend(start, end, t))
        nearest == _find_nearest_wine_visual_type(state)
    IN  [step                |-> i,
         t                   |-> RoundAffine(0, TUnit, t),
         state               |-> state,
         nearest_visual_type |-> nearest.nearest,
         distance_to_nearest |-> RoundDistance(nearest.min_dist)]

compute_wine_tasting_trajectory(start_wine_type_id, end_wine_type_id, num_steps) ==
    IF ~Has(WINE_VISUAL_TYPES, start_wine_type_id) \/ ~Has(WINE_VISUAL_TYPES, end_wine_type_id)
    THEN Returned([error     |-> <<"Unknown wine type(s)">>,
                   available |-> Keys(WINE_VISUAL_TYPES)])
    ELSE IF num_steps = 0
    THEN \* range(1) runs i = 0 and t = i / num_steps divides by zero
         Raised("ZeroDivisionError")
    ELSE LET start      == Get(WINE_VISUAL_TYPES, start_wine_type_id).coords
             end        == Get(WINE_VISUAL_TYPES, end_wine_type_id).coords
             total_dist == _euclidean_distance_wine(start, end)
         IN  Returned([start                    |-> start_wine_type_id,
                       end                      |-> end_wine_type_id,
                       num_steps                |-> num_steps,
                       total_distance           |-> RoundDistance(total_dist),
                       dominant_transition_axis |-> BiggestChangeParam(start, end),
                       trajectory               |->
                           [k \in 1..(num_steps + 1) |->
                               TrajectorySample(start, end, num_steps, k - 1)]])

list_wine_tasting_rhythmic_presets ==
    Returned([i \in 1..Len(WINE_RHYTHMIC_PRESETS) |->
        LET preset == WINE_RHYTHMIC_PRESETS[i].value
        IN  [key   |-> WINE_RHYTHMIC_PRESETS[i].key,
             value |-> [period      |-> preset.steps_per_cycle,
                        total_steps |-> preset.num_cycles * preset.steps_per_cycle,
                        pattern     |-> preset.pattern,
                        state_a     |-> preset.state_a,
                        state_b     |-> preset.state_b,
                        description |-> preset.description]]])

apply_wine_tasting_rhythmic_preset(preset_name) ==
    IF ~Has(WINE_RHYTHMIC_PRESETS, preset_name)
    THEN Returned([error     |-> <<"Unknown preset '", preset_name, "'">>,
                   available |-> Keys(WINE_RHYTHMIC_PRESETS)])
    ELSE LET preset   == Get(WINE_RHYTHMIC_PRESETS, preset_name)
             sequence == _generate_wine_preset_sequence(preset_name)
         IN  Returned([preset_name |-> preset_name,
                       period      |-> preset.steps_per_cycle,
                       total_steps |-> Len(sequence),
                       pattern     |-> preset.pattern,
                       state_a     |-> preset.state_a,
                       state_b     |-> preset.state_b,
                       description |-> preset.description,
                       sequence    |-> sequence])

\* alphas[k:] + alphas[:k]
Rotate(alphas, k) ==
    LET b == SliceBound(k, Len(alphas))
    IN  SubSeq(alphas, b + 1, Len(alphas)) \o SubSeq(alphas, 1, b)

\* phase_offset is given in quarters: int(phase_offset * steps_per_cycle).
OffsetSteps(phase_quarters, steps_per_cycle) ==
    TruncDiv(phase_quarters * steps_per_cycle, 4)

generate_wine_tasting_rhythmic_sequence(state_a_id, state_b_id, oscillation_pattern, num_cycles, steps_per_cycle, phase_quarters) ==
    IF ~Has(WINE_TASTING_COORDS, state_a_id) \/ ~Has(WINE_TASTING_COORDS, state_b_id)
    THEN Returned([error     |-> <<"Unknown wine state(s)">>,
                   available |-> Keys(WINE_TASTING_COORDS)])
    ELSE IF OscillationRaises(oscillation_pattern)
    THEN Raised("ValueError")
    ELSE LET total_steps == num_cycles * steps_per_cycle
             base        == _generate_wine_oscillation(total_steps, num_cycles,
                                                       oscillation_pattern)
             alphas      == IF phase_quarters > 0
                            THEN Rotate(base, OffsetSteps(phase_quarters, steps_per_cycle))
                            ELSE base
         IN  Returned([state_a             |-> state_a_id,
                       state_b             |-> state_b_id,
                       oscillation_pattern |-> oscillation_pattern,
                       num_cycles          |-> num_cycles,
                       steps_per_cycle     |-> steps_per_cycle,
                       total_steps         |-> total_steps,
                       phase_offset        |-> phase_quarters,
                       sequence            |->
                           [k \in 1..Len(alphas) |->
                               [step         |-> k - 1,
                                phase        |-> RoundFraction([num |-> k - 1,
                                                                den |-> total_steps]),
                                blend_factor |-> RoundFraction(alphas[k]),
                                state        |-> RoundState(_interpolate_wine_states(
                                                     state_a_id, state_b_id, alphas[k]))]]])

\* A dict argument is truthy unless it is None or empty; both are the empty
\* mapping here.
Truthy(state) == DOMAIN state # {}

\* {p: round(coords.get(p, 0.0), 4) for p in WINE_PARAMETER_NAMES}
EchoState(coords) ==
    [p \in {WINE_PARAMETER_NAMES[i] : i \in 1..Len(WINE_PARAMETER_NAMES)} |->
        IF p \in DOMAIN coords THEN coords[p] ELSE 0]

\* round(strength * (1.0 - 0.05 * i), 2), strength in units of 1/WeightUnit.
StrengthWeight(strength, i) == RoundDiv(strength * (100 - 5 * i), 100)

extract_wine_tasting_visual_vocabulary(state, wine_type_id, strength) ==
    IF ~(wine_type_id # "" /\ Has(WINE_VISUAL_TYPES, wine_type_id)) /\ ~Truthy(state)
    THEN Returned([error |-> <<"Provide either state or wine_type_id">>])
    ELSE LET coords == IF wine_type_id # "" /\ Has(WINE_VISUAL_TYPES, wine_type_id)
                       THEN Get(WINE_VISUAL_TYPES, wine_type_id).coords
                       ELSE state
         IN  IF ~HasAllAxes(coords)
             THEN \* state1[p] in _euclidean_distance_wine
                  Raised("KeyError")
             ELSE LET found     == _find_nearest_wine_visual_type(coords)
                      type_data == Get(WINE_VISUAL_TYPES, found.nearest)
                  IN  Returned([nearest_type       |-> found.nearest,
                                distance           |-> RoundDistance(found.min_dist),
                                keywords           |-> type_data.keywords,
                                weighted_keywords  |->
                                    [k \in 1..Len(type_data.keywords) |->
                                        [keyword |-> type_data.keywords[k],
                                         weight  |-> StrengthWeight(strength, k - 1)]],
                                optical_properties |-> type_data.optical_properties,
                                input_state        |-> EchoState(coords)])

\* [style_modifier] if style_modifier else []
StyleParts(style_modifier) ==
    IF style_modifier # "" THEN << <<style_modifier>> >> ELSE << >>

\* The parts that ", ".join(parts) joins, each part the pieces of one string.
Words(keywords) == [k \in 1..Len(keywords) |-> <<keywords[k]>>]

\* [kw for kw in keywords if any(w in kw.lower() for w in <the category's words>)]
CategoryKeywords(keywords, category) ==
    SelectSeq(keywords, LAMBDA kw : <<category, kw>> \in KeywordMatches)

PromptCategories ==
    << "color_light", "texture_structure", "aroma_complexity", "atmosphere_mood" >>

\* categories, with "general" appended when some keyword matched none.
SplitCategories(keywords) ==
    LET named == [i \in 1..Len(PromptCategories) |->
                     [key   |-> PromptCategories[i],
                      value |-> CategoryKeywords(keywords, PromptCategories[i])]]
        uncategorized ==
            SelectSeq(keywords,
                      LAMBDA kw : \A i \in 1..Len(PromptCategories) :
                                      <<PromptCategories[i], kw>> \notin KeywordMatches)
    IN  IF uncategorized # << >>
        THEN Append(named, [key |-> "general", value |-> uncategorized])
        ELSE named

\* split_prompts: one prompt per non-empty category.
SplitPrompts(keywords, style_modifier) ==
    LET categories == SplitCategories(keywords)
        nonEmpty   == SelectSeq(categories, LAMBDA c : c.value # << >>)
    IN  [i \in 1..Len(nonEmpty) |->
            [key   |-> nonEmpty[i].key,
             value |-> StyleParts(style_modifier) \o Words(nonEmpty[i].value)]]

generate_wine_tasting_prompt(wine_type_id, custom_state, mode, style_modifier) ==
    IF ~Truthy(custom_state) /\ ~(wine_type_id # "" /\ Has(WINE_VISUAL_TYPES, wine_type_id))
    THEN Returned([error     |-> <<"Provide wine_type_id or custom_state">>,
                   available |-> Keys(WINE_VISUAL_TYPES)])
    ELSE LET coords == IF Truthy(custom_state) THEN custom_state
                       ELSE Get(WINE_VISUAL_TYPES, wine_type_id).coords
         IN  IF ~HasAllAxes(coords)
             THEN Raised("KeyError")
             ELSE LET found     == _find_nearest_wine_visual_type(coords)
                      type_data == Get(WINE_VISUAL_TYPES, found.nearest)
                      opt       == type_data.optical_properties
                  IN  IF mode = "composite"
                      THEN Returned([mode               |-> "composite",
                                     prompt             |->
                                         StyleParts(style_modifier)
                                         \o Words(type_data.keywords)
                                         \o << <<opt.finish, " finish">>,
                                               <<opt.refraction>> >>,
                                     nearest_type       |-> found.nearest,
                                     distance           |-> RoundDistance(found.min_dist),
                                     optical_properties |-> opt,
                                     source_state       |-> EchoState(coords)])
                      ELSE IF mode = "split_view"
                      THEN Returned([mode         |-> "split_view",
                                     prompts      |-> SplitPrompts(type_data.keywords,
                                                                   style_modifier),
                                     nearest_type |-> found.nearest,
                                     distance     |-> RoundDistance(found.min_dist),
                                     source_state |-> EchoState(coords)])
                      ELSE Returned([error |->
                               <<"Unknown mode '", mode,
                                 "'. Use 'composite' or 'split_view'.">>])

\* The indices had the code rounded i * total / keyframe_count (round() for
\* int()).
KeyframeIndicesRounded(total, keyframe_count) ==
    IF keyframe_count >= total
    THEN [k \in 1..total |-> k - 1]
    ELSE [k \in 1..keyframe_count |-> RoundDiv((k - 1) * total, keyframe_count)]

\* indices: range(total) when keyframe_count >= total, else
\* [int(i * total / keyframe_count) for i in range(keyframe_count)]
KeyframeIndices(total, keyframe_count) ==
    IF keyframe_count >= total
    THEN [k \in 1..total |-> k - 1]
    ELSE [k \in 1..keyframe_count |-> TruncDiv((k - 1) * total, keyframe_count)]

\* The keyframe built from sequence[idx].
Keyframe(step_data, style_modifier) ==
    LET found     == _find_nearest_wine_visual_type(step_data.state)
        type_data == Get(WINE_VISUAL_TYPES, found.nearest)
    IN  [step                |-> step_data.step,
         phase               |-> step_data.phase,
         blend_factor        |-> step_data.blend_factor,
         state               |-> step_data.state,
         nearest_visual_type |-> found.nearest,
         distance            |-> RoundDistance(found.min_dist),
         prompt              |-> StyleParts(style_modifier)
                                 \o Words(type_data.keywords)
                                 \o << <<type_data.optical_properties.finish, " finish">> >>]

generate_wine_tasting_sequence_prompts(preset_name, keyframe_count, style_modifier) ==
    IF ~Has(WINE_RHYTHMIC_PRESETS, preset_name)
    THEN Returned([error     |-> <<"Unknown preset '", preset_name, "'">>,
                   available |-> Keys(WINE_RHYTHMIC_PRESETS)])
    ELSE LET sequence == _generate_wine_preset_sequence(preset_name)
             indices  == KeyframeIndices(Len(sequence), keyframe_count)
             keyframes == [k \in 1..Len(indices) |->
                              Keyframe(sequence[indices[k] + 1], style_modifier)]
         IN  Returned([preset         |-> preset_name,
                       period         |-> Get(WINE_RHYTHMIC_PRESETS, preset_name).steps_per_cycle,
                       keyframe_count |-> Len(keyframes),
                       keyframes      |-> keyframes])

\* ------------------------------------------------------- what callers pass
TypeIds == {InitialVisualTypes[i].key : i \in 1..Len(InitialVisualTypes)}

\* Archetype ids, and ids that are not archetypes: the empty id, a canonical
\* state's name and an unknown name.
TypeIdInputs == TypeIds \cup {"", "mosel_riesling", "no_such_type"}

PresetInputs ==
    {InitialRhythmicPresets[i].key : i \in 1..Len(InitialRhythmicPresets)}
    \cup {"", "no_such_preset"}

\* Canonical state ids, and an archetype's name, which is not one.
StateIdInputs == {"young_burgundy", "aged_barolo", "riesling_crystal"}

PatternInputs == KnownPatterns \cup {"sawtooth"}

IntensityInputs == {"subtle", "moderate", "dramatic", "extreme"}

EmphasisInputs == {"finish", "texture", "color", "aroma", "structure", "mood"}

ModeInputs == {"composite", "split_view", "triptych"}

StyleInputs == {"", "oil painting"}

\* strength, in units of 1/WeightUnit.
StrengthInputs == {100, 80}

NumStepsInputs == (-2..MaxNumSteps) \cup {DefaultNumSteps}

KeyframeCountInputs == (-1..MaxKeyframeCount) \cup {DefaultKeyframeCount}

CycleInputs == -1..MaxCycles

StepsPerCycleInputs == -2..MaxStepsPerCycle

PhaseQuarterInputs == -1..MaxPhaseQuarters

\* A state given in declared axis order.
StateOf(values) ==
    [p \in {InitialParameterNames[i] : i \in 1..Len(InitialParameterNames)} |->
        values[CHOOSE i \in 1..Len(InitialParameterNames) : InitialParameterNames[i] = p]]

\* None, or {}.
NoState == [p \in {} |-> 0]

\* Coordinates with every axis, each value in [0, 1]: interior points, points
\* whose two nearest archetypes are exactly equally far, and every anchor.
ValidRawStates ==
    { StateOf(<<5000, 5000, 5000, 5000, 5000>>),
      StateOf(<<0, 0, 0, 0, 0>>),
      StateOf(<<0, 2500, 5000, 10000, 0>>),
      StateOf(<<2500, 0, 7500, 0, 0>>),
      StateOf(<<0, 10000, 0, 10000, 7500>>),
      StateOf(<<0, 2500, 2500, 10000, 2500>>),
      StateOf(<<6250, 6750, 5250, 6250, 2500>>) }
    \cup {InitialVisualTypes[i].value.coords : i \in 1..Len(InitialVisualTypes)}

\* Coordinates with a value outside [0, 1].
OutOfRangeRawStates ==
    { StateOf(<<15000, 5000, 5000, 5000, 5000>>),
      StateOf(<<5000, -2000, 5000, 5000, 5000>>) }

\* Coordinates that lack a declared axis.
PartialRawStates ==
    { [structural_tension |-> 5000],
      [structural_tension |-> 9000, color_depth |-> 1500,
       aromatic_complexity |-> 5500, textural_weight |-> 1500] }

RawStateInputs ==
    {NoState} \cup ValidRawStates \cup OutOfRangeRawStates \cup PartialRawStates

\* The server had the rhythmic sequence interpolated in place, leaving the
\* last step's state in state A's registry entry (a[p] = a[p] * ...).
ServeInterpolatingInPlace(request, outcome) ==
    /\ pc = "idle"
    /\ call' = request
    /\ pc' = outcome.status
    /\ result' = outcome.body
    /\ IF /\ request.op = "generate_wine_tasting_rhythmic_sequence"
          /\ outcome.status = "returned"
          /\ "sequence" \in DOMAIN outcome.body
          /\ outcome.body.sequence # << >>
       THEN WINE_TASTING_COORDS' =
                [i \in 1..Len(WINE_TASTING_COORDS) |->
                    IF WINE_TASTING_COORDS[i].key = request.state_a_id
                    THEN [key   |-> request.state_a_id,
                          value |-> outcome.body.sequence[Len(outcome.body.sequence)].state]
                    ELSE WINE_TASTING_COORDS[i]]
       ELSE UNCHANGED WINE_TASTING_COORDS
    /\ UNCHANGED << WINE_PARAMETER_NAMES, WINE_RHYTHMIC_PRESETS, WINE_VISUAL_TYPES >>
    /\ UNCHANGED taxonomy

\* ------------------------------------------------------------- the server
\* The server takes one request at a time: a tool runs to its return value
\* or its exception, and the server goes back to waiting.
Serve(request, outcome) ==
    /\ pc = "idle"
    /\ call' = request
    /\ pc' = outcome.status
    /\ result' = outcome.body
    /\ UNCHANGED registries
    /\ UNCHANGED taxonomy

GetWineTastingTypes ==
    Serve([op |-> "get_wine_tasting_types"], get_wine_tasting_types)

GetWineTastingSpecifications ==
    \E id \in TypeIdInputs :
        Serve([op |-> "get_wine_tasting_specifications", wine_type_id |-> id],
              get_wine_tasting_specifications(id))

MapWineTastingParameters ==
    \E id \in TypeIdInputs, intensity \in IntensityInputs, emphasis \in EmphasisInputs :
        Serve([op |-> "map_wine_tasting_parameters", wine_type_id |-> id,
               intensity |-> intensity, emphasis |-> emphasis],
              map_wine_tasting_parameters(id, intensity, emphasis))

ComputeWineTastingDistance ==
    \E id1 \in TypeIdInputs, id2 \in TypeIdInputs :
        Serve([op |-> "compute_wine_tasting_distance",
               wine_type_id_1 |-> id1, wine_type_id_2 |-> id2],
              compute_wine_tasting_distance(id1, id2))

ComputeWineTastingTrajectory ==
    \E id1 \in TypeIdInputs, id2 \in TypeIdInputs, n \in NumStepsInputs :
        Serve([op |-> "compute_wine_tasting_trajectory",
               start_wine_type_id |-> id1, end_wine_type_id |-> id2, num_steps |-> n],
              compute_wine_tasting_trajectory(id1, id2, n))

ListWineTastingRhythmicPresets ==
    Serve([op |-> "list_wine_tasting_rhythmic_presets"],
          list_wine_tasting_rhythmic_presets)

ApplyWineTastingRhythmicPreset ==
    \E name \in PresetInputs :
        Serve([op |-> "apply_wine_tasting_rhythmic_preset", preset_name |-> name],
              apply_wine_tasting_rhythmic_preset(name))

GenerateWineTastingRhythmicSequence ==
    \E a \in StateIdInputs, b \in StateIdInputs, pattern \in PatternInputs,
       cycles \in CycleInputs, steps \in StepsPerCycleInputs,
       quarters \in PhaseQuarterInputs :
        Serve([op |-> "generate_wine_tasting_rhythmic_sequence",
               state_a_id |-> a, state_b_id |-> b, oscillation_pattern |-> pattern,
               num_cycles |-> cycles, steps_per_cycle |-> steps,
               phase_offset |-> quarters],
              generate_wine_tasting_rhythmic_sequence(a, b, pattern, cycles, steps,
                                                      quarters))

ExtractWineTastingVisualVocabulary ==
    \E state \in RawStateInputs, id \in TypeIdInputs, strength \in StrengthInputs :
        Serve([op |-> "extract_wine_tasting_visual_vocabulary", state |-> state,
               wine_type_id |-> id, strength |-> strength],
              extract_wine_tasting_visual_vocabulary(state, id, strength))

GenerateWineTastingPrompt ==
    \E id \in TypeIdInputs, state \in RawStateInputs, mode \in ModeInputs,
       style \in StyleInputs :
        Serve([op |-> "generate_wine_tasting_prompt", wine_type_id |-> id,
               custom_state |-> state, mode |-> mode, style_modifier |-> style],
              generate_wine_tasting_prompt(id, state, mode, style))

GenerateWineTastingSequencePrompts ==
    \E name \in PresetInputs, count \in KeyframeCountInputs, style \in StyleInputs :
        Serve([op |-> "generate_wine_tasting_sequence_prompts", preset_name |-> name,
               keyframe_count |-> count, style_modifier |-> style],
              generate_wine_tasting_sequence_prompts(name, count, style))

\* The response is delivered and the server waits for the next request.
Respond ==
    /\ pc # "idle"
    /\ pc' = "idle"
    /\ call' = NoCall
    /\ result' = NoResult
    /\ UNCHANGED registries
    /\ UNCHANGED taxonomy

Next ==
    \/ GetWineTastingTypes
    \/ GetWineTastingSpecifications
    \/ MapWineTastingParameters
    \/ ComputeWineTastingDistance
    \/ ComputeWineTastingTrajectory
    \/ ListWineTastingRhythmicPresets
    \/ ApplyWineTastingRhythmicPreset
    \/ GenerateWineTastingRhythmicSequence
    \/ ExtractWineTastingVisualVocabulary
    \/ GenerateWineTastingPrompt
    \/ GenerateWineTastingSequencePrompts
    \/ Respond

Spec == Init /\ [][Next]_vars


\* ------------------------------------------- phase 1: the vocabulary tools
\* The comparison had the code taken the values as given (no .lower()).
LowerAsGiven(s) == s

\* s.lower()
Lower(s) == IF Has(LowerTable, s) THEN Get(LowerTable, s) ELSE s

\* s.replace(" ", "_")
Underscored(s) == IF Has(UnderscoreTable, s) THEN Get(UnderscoreTable, s) ELSE s

\* value is the value of a member of the enumeration (Enum(value) does not
\* raise ValueError).
IsMember(enumeration, value) ==
    \E i \in 1..Len(enumeration) : enumeration[i] = value

\* d.get(name, default) of a record
FieldOr(d, name, default) == IF name \in DOMAIN d THEN d[name] ELSE default

\* {}
EmptyDict == [name \in {} |-> name]

\* table.get(key, {})
GetOrEmpty(table, key) == IF Has(table, key) THEN Get(table, key) ELSE EmptyDict

RECURSIVE Concat(_)
\* The lists of a list, joined in order.
Concat(lists) ==
    IF lists = << >> THEN << >> ELSE Head(lists) \o Concat(Tail(lists))

\* BalanceProfile.get_visual_tension: (acidity / 10.0 + tannin / 10.0) / 2
\* against 0.65 and 0.45, that is acidity + tannin against 13 and 9; at an
\* exact 13 or 9 the double decides.
get_visual_tension(self) ==
    LET sum   == self.acidity + self.tannin
        above == <<self.acidity, self.tannin>> \in TensionRoundsAbove
    IN  IF sum > 13 * LevelUnit \/ (sum = 13 * LevelUnit /\ above)
        THEN "high angular taut"
        ELSE IF sum > 9 * LevelUnit \/ (sum = 9 * LevelUnit /\ above)
        THEN "medium balanced"
        ELSE "low soft relaxed"

\* BalanceProfile.get_visual_weight: (body + alcohol) / 20.0 against 0.7 and
\* 0.4, that is body + alcohol against 14 and 8.
get_visual_weight(self) ==
    LET sum == self.body + self.alcohol
    IN  IF sum > 14 * LevelUnit THEN "full dense heavy opaque"
        ELSE IF sum > 8 * LevelUnit THEN "medium substantial"
        ELSE "light ethereal transparent"

is_red_varietal(varietal_name) == Lower(varietal_name) \in red_varietals

\* The first of the five values that is no member of its enumeration, as
\* the try block meets them; << >> when all five parse.
FirstInvalid(varietal, climate, winemaking_style, oak_treatment, age) ==
    IF ~IsMember(Varietal, Lower(varietal)) THEN <<Lower(varietal), "Varietal">>
    ELSE IF ~IsMember(ClimateType, Lower(climate)) THEN <<Lower(climate), "ClimateType">>
    ELSE IF ~IsMember(WinemakingStyle, Lower(winemaking_style))
    THEN <<Lower(winemaking_style), "WinemakingStyle">>
    ELSE IF ~IsMember(OakTreatment, Lower(oak_treatment))
    THEN <<Lower(oak_treatment), "OakTreatment">>
    ELSE IF ~IsMember(AgeCategory, Lower(age)) THEN <<Lower(age), "AgeCategory">>
    ELSE << >>

\* primary_aromas is None.
NoAromas == << >>

\* The clusters whose notes hold the aroma, in AROMA_CLUSTERS' order.
ClustersOf(aroma) ==
    SelectSeq(AROMA_CLUSTERS,
              LAMBDA cluster : \E i \in 1..Len(cluster.value.notes) :
                                   cluster.value.notes[i] = aroma)

\* aroma_palette: the colour palettes of the clusters the aromas fall in.
AromaPalette(primary_aromas) ==
    Concat([k \in 1..Len(primary_aromas) |->
               LET hits == ClustersOf(Lower(primary_aromas[k]))
               IN  Concat([h \in 1..Len(hits) |-> hits[h].value.color_palette])])

\* set(aroma_descriptors): the brightness and the texture of those clusters.
\* list() of the set has no order of its own, and is a set here.
AromaTextures(primary_aromas) ==
    UNION { { hit.value.brightness, hit.value.texture } :
            hit \in UNION { { ClustersOf(Lower(primary_aromas[k]))[h] :
                              h \in 1..Len(ClustersOf(Lower(primary_aromas[k]))) } :
                            k \in 1..Len(primary_aromas) } }

\* The eleven sections of the visual vocabulary, or the error of the first
\* value that is not registered.  The five levels are in tenths.
generate_wine_visual_vocabulary(varietal, climate, winemaking_style, oak_treatment, age, acidity, tannin, sweetness, alcohol, body, finish_length, primary_aromas) ==
    LET invalid == FirstInvalid(varietal, climate, winemaking_style, oak_treatment, age)
    IN  IF invalid # << >>
        THEN Returned([error |-> <<"Invalid parameter value: '", invalid[1],
                                   "' is not a valid ", invalid[2]>>])
        ELSE LET varietal_char == GetOrEmpty(VARIETAL_CHARACTERISTICS, Lower(varietal))
                 climate_mod   == Get(CLIMATE_MODIFIERS, Lower(climate))
                 style_mod     == Get(WINEMAKING_STYLE_MODIFIERS, Lower(winemaking_style))
                 oak_char      == Get(OAK_CHARACTERISTICS, Lower(oak_treatment))
                 age_transform == Get(AGE_TRANSFORMATIONS, Lower(age))
                 balance       == [acidity |-> acidity, tannin |-> tannin,
                                   sweetness |-> sweetness, alcohol |-> alcohol,
                                   body |-> body]
                 finish_char   == IF Has(FINISH_CHARACTERISTICS, finish_length)
                                  THEN Get(FINISH_CHARACTERISTICS, finish_length)
                                  ELSE Get(FINISH_CHARACTERISTICS, "medium")
                 aroma_palette == AromaPalette(primary_aromas)
             IN  Returned(
                   [base_color |->
                        [hue           |-> FieldOr(varietal_char, "color_hue", "#FFFFFF"),
                         description   |-> FieldOr(varietal_char, "color_base", ""),
                         age_modified  |-> FieldOr(age_transform,
                                               IF is_red_varietal(varietal)
                                               THEN "red_color_shift"
                                               ELSE "white_color_shift", ""),
                         climate_shift |-> climate_mod.color_shift],
                    opacity_clarity |->
                        [base_opacity  |-> FieldOr(varietal_char, "opacity", DefaultOpacity),
                         clarity       |-> age_transform.visual_clarity,
                         visual_weight |-> get_visual_weight(balance)],
                    texture_surface |->
                        [base_texture     |-> FieldOr(varietal_char, "texture", ""),
                         structure        |-> FieldOr(varietal_char, "structure", ""),
                         climate_modifier |-> climate_mod.texture_modifier,
                         oak_overlay      |-> oak_char.texture_overlay,
                         age_state        |-> age_transform.texture_state],
                    compositional_structure |->
                        [base_composition |-> FieldOr(varietal_char, "composition", ""),
                         style_aesthetic  |-> style_mod.aesthetic,
                         visual_tension   |-> get_visual_tension(balance),
                         integration      |-> age_transform.integration,
                         edge_quality     |-> FieldOr(varietal_char, "edge_quality", ""),
                         edge_treatment   |-> climate_mod.edge_treatment],
                    atmospheric_qualities |->
                        [climate_atmosphere |-> climate_mod.atmosphere,
                         style_atmosphere   |-> style_mod.atmosphere,
                         finish_depth       |-> finish_char.atmospheric_depth,
                         fade_pattern       |-> finish_char.fade_pattern,
                         time_signature     |-> age_transform.time_signature],
                    material_references |->
                        [oak_materials  |-> oak_char.material_reference,
                         finish_quality |-> oak_char.finish_quality,
                         age_patina     |-> IF Lower(age) \in {"mature", "past_prime"}
                                            THEN "aged weathered" ELSE "fresh new"],
                    color_palette |->
                        [primary           |-> FieldOr(varietal_char, "color_hue", "#FFFFFF"),
                         aroma_palette     |-> Slice(aroma_palette, 0, 4),
                         saturation_adjust |-> climate_mod.saturation_adjust,
                         brightness_adjust |-> climate_mod.brightness_adjust,
                         color_treatment   |-> style_mod.color_treatment],
                    aromatic_descriptors |->
                        [characteristic_notes |-> FieldOr(varietal_char,
                                                          "characteristic_notes", << >>),
                         aroma_category       |-> age_transform.aromatic_category,
                         aroma_textures       |-> AromaTextures(primary_aromas)],
                    balance_relationships |->
                        [acidity        |-> acidity,
                         tannin         |-> tannin,
                         sweetness      |-> sweetness,
                         alcohol        |-> alcohol,
                         body           |-> body,
                         visual_tension |-> get_visual_tension(balance),
                         visual_weight  |-> get_visual_weight(balance)],
                    finish_dimension |->
                        [length         |-> finish_length,
                         descriptor     |-> finish_char.length_descriptor,
                         edge_treatment |-> finish_char.edge_treatment,
                         fade_pattern   |-> finish_char.fade_pattern],
                    metadata |->
                        [varietal         |-> varietal,
                         climate          |-> climate,
                         winemaking_style |-> winemaking_style,
                         oak_treatment    |-> oak_treatment,
                         age_category     |-> age]])

\* The parameters generate_wine_visual_vocabulary accepts.
VocabularyParameters ==
    {"varietal", "climate", "winemaking_style", "oak_treatment", "age", "acidity",
     "tannin", "sweetness", "alcohol", "body", "finish_length", "primary_aromas"}

\* The defaults of its signature; the levels in tenths.
VocabularyDefaults ==
    [climate |-> "moderate", winemaking_style |-> "old_world",
     oak_treatment |-> "french_oak", age |-> "developing",
     acidity |-> 5 * LevelUnit, tannin |-> 5 * LevelUnit, sweetness |-> 2 * LevelUnit,
     alcohol |-> 6 * LevelUnit, body |-> 6 * LevelUnit, finish_length |-> "medium",
     primary_aromas |-> NoAromas]

\* generate_wine_visual_vocabulary.fn(**params): TypeError for a missing
\* varietal or a keyword the function does not have.
VocabularyOf(params) ==
    IF "varietal" \notin DOMAIN params \/ ~(DOMAIN params \subseteq VocabularyParameters)
    THEN Raised("TypeError")
    ELSE LET arg(name) == FieldOr(params, name, VocabularyDefaults[name])
         IN  generate_wine_visual_vocabulary(
                 params.varietal, arg("climate"), arg("winemaking_style"),
                 arg("oak_treatment"), arg("age"), arg("acidity"), arg("tannin"),
                 arg("sweetness"), arg("alcohol"), arg("body"), arg("finish_length"),
                 arg("primary_aromas"))

\* vocab[section], or the KeyError of a vocabulary that is an error value.
compare_wine_profiles(wine1_params, wine2_params) ==
    LET first  == VocabularyOf(wine1_params)
        second == VocabularyOf(wine2_params)
        vocab1 == first.body
        vocab2 == second.body
    IN  IF first.status = "raised" THEN first
        ELSE IF second.status = "raised" THEN second
        ELSE IF "base_color" \notin DOMAIN vocab1 \/ "base_color" \notin DOMAIN vocab2
        THEN Raised("KeyError")
        ELSE Returned(
               [color_contrast |->
                    [wine1      |-> vocab1.base_color,
                     wine2      |-> vocab2.base_color,
                     difference |-> IF vocab1.base_color.hue # vocab2.base_color.hue
                                    THEN "significant" ELSE "subtle"],
                texture_contrast |->
                    [wine1 |-> vocab1.texture_surface.base_texture,
                     wine2 |-> vocab2.texture_surface.base_texture,
                     structural_difference |->
                         <<vocab1.texture_surface.structure, " vs ",
                           vocab2.texture_surface.structure>>],
                weight_contrast |->
                    [wine1 |-> vocab1.opacity_clarity.visual_weight,
                     wine2 |-> vocab2.opacity_clarity.visual_weight],
                atmospheric_contrast |->
                    [wine1 |-> vocab1.atmospheric_qualities,
                     wine2 |-> vocab2.atmospheric_qualities],
                balance_comparison |->
                    [wine1_tension |-> vocab1.balance_relationships.visual_tension,
                     wine2_tension |-> vocab2.balance_relationships.visual_tension,
                     wine1_weight  |-> vocab1.balance_relationships.visual_weight,
                     wine2_weight  |-> vocab2.balance_relationships.visual_weight]])

\* The preset's vocabulary with the region added, or the error that lists
\* the regions.
create_regional_preset(region) ==
    LET region_lower == Underscored(Lower(region))
    IN  IF Has(region_presets, region_lower)
        THEN LET vocab == VocabularyOf(Get(region_presets, region_lower))
             IN  IF vocab.status = "raised" THEN vocab
                 ELSE Returned([name \in DOMAIN vocab.body \cup {"regional_preset"} |->
                                   IF name = "regional_preset" THEN region
                                   ELSE vocab.body[name]])
        ELSE Returned([error             |-> <<"Region '", region, "' not found">>,
                       available_regions |-> Keys(region_presets)])

\* ------------------------------------------- the vocabulary tools' server
\* What callers pass: registered values in several spellings, and values
\* that are not registered.
VarietalInputs == {"pinot_noir", "Pinot_Noir", "riesling", "RIESLING", "invalid_grape"}

ClimateInputs == {"cool", "Warm", "tropical"}

WinemakingStyleInputs == {"old_world", "NEW_WORLD", "natural"}

OakTreatmentInputs == {"french_oak", "None", "steel"}

AgeInputs == {"developing", "Mature", "ancient"}

\* The other arguments: the defaults, and two profiles of high acidity with
\* aromas in and out of the clusters and a finish in and out of the table.
BalanceAndFinishInputs ==
    { [acidity |-> 5 * LevelUnit, tannin |-> 5 * LevelUnit, finish_length |-> "medium",
       primary_aromas |-> NoAromas],
      [acidity |-> 9 * LevelUnit, tannin |-> 0, finish_length |-> "very_long",
       primary_aromas |-> <<"Cherry", "slate", "Petrol", "bubblegum">>],
      [acidity |-> 9 * LevelUnit, tannin |-> 5 * LevelUnit, finish_length |-> "eternal",
       primary_aromas |-> <<"slate">>] }

\* Parameter sets for compare_wine_profiles: accepted ones, a rejected one,
\* one without varietal and one with a keyword the function does not have.
ProfileInputs ==
    { [varietal |-> "pinot_noir", climate |-> "cool", body |-> 5 * LevelUnit],
      [varietal |-> "cabernet_sauvignon", climate |-> "warm", body |-> 9 * LevelUnit],
      [varietal |-> "RIESLING", acidity |-> 9 * LevelUnit, tannin |-> 0],
      [varietal |-> "invalid_grape", climate |-> "cool"],
      [varietal |-> "merlot", age |-> "ancient"],
      [climate |-> "cool"],
      [varietal |-> "merlot", colour |-> "x"] }

RegionInputs ==
    {region_presets[i].key : i \in 1..Len(region_presets)}
        \cup {"Mosel Riesling", "atlantis"}

\* Every level from 0.0 to 10.0 in tenths.
Levels == 0..(10 * LevelUnit)

\* Profiles for get_visual_tension: acidity from 9.0 up with every tannin,
\* and lower acidities with every tannin in whole units.
BalanceInputs ==
    { [acidity |-> a, tannin |-> t, sweetness |-> 2 * LevelUnit,
       alcohol |-> 5 * LevelUnit, body |-> 5 * LevelUnit] :
      a \in { x \in Levels : x >= 9 * LevelUnit }, t \in Levels }
    \cup
    { [acidity |-> a, tannin |-> t, sweetness |-> 2 * LevelUnit,
       alcohol |-> 5 * LevelUnit, body |-> 5 * LevelUnit] :
      a \in { x \in Levels : x % LevelUnit = 0 }, t \in { x \in Levels : x % LevelUnit = 0 } }

\* The file as the import may find it: empty, an empty list, a mapping.
TaxonomyFileInputs == {"", "[]", TaxonomyDocument}

\* The module imported, with the file in any of its forms.
VocabularyInit == \E text \in TaxonomyFileInputs : Imported(text)

\* A vocabulary tool answers in one step, as Serve does for the tools of the
\* morphospace: the call and its outcome are recorded, nothing else changes.
GenerateWineVisualVocabulary ==
    \E varietal \in VarietalInputs, climate \in ClimateInputs,
       style \in WinemakingStyleInputs, oak \in OakTreatmentInputs, age \in AgeInputs,
       rest \in BalanceAndFinishInputs :
        LET outcome == generate_wine_visual_vocabulary(
                           varietal, climate, style, oak, age, rest.acidity,
                           rest.tannin, VocabularyDefaults.sweetness,
                           VocabularyDefaults.alcohol, VocabularyDefaults.body,
                           rest.finish_length, rest.primary_aromas)
        IN  /\ pc = "idle"
            /\ call' = [op |-> "generate_wine_visual_vocabulary",
                        varietal |-> varietal, climate |-> climate,
                        winemaking_style |-> style, oak_treatment |-> oak,
                        age |-> age, acidity |-> rest.acidity, tannin |-> rest.tannin,
                        finish_length |-> rest.finish_length,
                        primary_aromas |-> rest.primary_aromas]
            /\ pc' = outcome.status
            /\ result' = outcome.body
            /\ UNCHANGED registries
            /\ UNCHANGED taxonomy

CompareWineProfiles ==
    \E wine1 \in ProfileInputs, wine2 \in ProfileInputs :
        LET outcome == compare_wine_profiles(wine1, wine2)
        IN  /\ pc = "idle"
            /\ call' = [op |-> "compare_wine_profiles", wine1_params |-> wine1,
                        wine2_params |-> wine2]
            /\ pc' = outcome.status
            /\ result' = outcome.body
            /\ UNCHANGED registries
            /\ UNCHANGED taxonomy

CreateRegionalPreset ==
    \E region \in RegionInputs :
        LET outcome == create_regional_preset(region)
        IN  /\ pc = "idle"
            /\ call' = [op |-> "create_regional_preset", region |-> region]
            /\ pc' = outcome.status
            /\ result' = outcome.body
            /\ UNCHANGED registries
            /\ UNCHANGED taxonomy

\* BalanceProfile(...).get_visual_tension()
GetVisualTension ==
    \E profile \in BalanceInputs :
        /\ pc = "idle"
        /\ call' = [op |-> "get_visual_tension", self |-> profile]
        /\ pc' = "returned"
        /\ result' = [value |-> get_visual_tension(profile)]
        /\ UNCHANGED registries
        /\ UNCHANGED taxonomy

\* _load_taxonomy(): the file is opened and parsed when the cache is None,
\* and the cache is returned.
LoadTaxonomy ==
    /\ pc = "idle"
    /\ IF _TAXONOMY_CACHE = None
       THEN /\ file_opens < MaxFileOpens
            /\ file_opens' = file_opens + 1
            /\ _TAXONOMY_CACHE' = YamlSafeLoad(taxonomy_file)
       ELSE UNCHANGED << _TAXONOMY_CACHE, file_opens >>
    /\ call' = [op |-> "_load_taxonomy"]
    /\ pc' = "returned"
    /\ result' = [value |-> _TAXONOMY_CACHE']
    /\ UNCHANGED taxonomy_file
    /\ UNCHANGED registries

VocabularyNext ==
    \/ GenerateWineVisualVocabulary
    \/ CompareWineProfiles
    \/ CreateRegionalPreset
    \/ GetVisualTension
    \/ LoadTaxonomy
    \/ Respond

VocabularySpec == VocabularyInit /\ [][VocabularyNext]_vars


\* ------------------------------------------------------------- properties
\* The request in hand is a call of op.
Called(op) == pc # "idle" /\ call.op = op

\* The request in hand is a call of op that came back with a return value.
Answered(op) == pc = "returned" /\ call.op = op

\* The return value is an error document.
IsError == "error" \in DOMAIN result

\* The error message quotes id.
Quotes(id) == \E k \in 1..Len(result.error) : result.error[k] = id

\* The order in which the axes are declared.
DeclaredAxes ==
    << "structural_tension", "color_depth", "aromatic_complexity",
       "textural_weight", "temporal_maturity" >>

\* The order in which the classifier scans the archetypes.
ScanOrder ==
    << "burgundian_silk", "barolo_patina", "napa_monument", "riesling_crystal",
       "rhone_wildfire", "champagne_effervescence", "sauternes_gold" >>

\* The position of x in the sequence s.
IndexIn(s, x) == CHOOSE i \in 1..Len(s) : s[i] = x

\* C1: for a registered preset and keyframe_count k >= 1,
\* generate_wine_tasting_sequence_prompts returns min(k, len(seq)) keyframes,
\* each a step of the preset's full sequence seq; their source indices are
\* strictly increasing, lie in [0, len(seq)) and start at 0; for k >= len(seq)
\* they are the whole sequence in order, otherwise the i-th is
\* floor(i * len(seq) / k).
C1_KeyframeSelection ==
    (/\ Answered("generate_wine_tasting_sequence_prompts")
     /\ Has(WINE_RHYTHMIC_PRESETS, call.preset_name)
     /\ call.keyframe_count >= 1)
    => LET seq    == _generate_wine_preset_sequence(call.preset_name)
           k      == call.keyframe_count
           frames == result.keyframes
       IN  /\ ~IsError
           /\ Len(frames) = Min(k, Len(seq))
           /\ result.keyframe_count = Len(frames)
           /\ \A i \in 1..Len(frames) :
                  /\ frames[i].step \in 0..(Len(seq) - 1)
                  /\ frames[i].state = seq[frames[i].step + 1].state
                  /\ frames[i].blend_factor = seq[frames[i].step + 1].blend_factor
                  /\ frames[i].phase = seq[frames[i].step + 1].phase
           /\ \A i \in 1..(Len(frames) - 1) : frames[i].step < frames[i + 1].step
           /\ frames[1].step = 0
           /\ k >= Len(seq) => \A i \in 1..Len(frames) : frames[i].step = i - 1
           /\ k < Len(seq) =>
                  \A i \in 1..Len(frames) : frames[i].step = ((i - 1) * Len(seq)) \div k

\* Seven keyframes of the 60 steps of structure_toggle: steps 0, 8, 17, ...
C1_Witness ==
    /\ Answered("generate_wine_tasting_sequence_prompts")
    /\ call.preset_name = "structure_toggle"
    /\ call.keyframe_count = 7
    /\ Len(result.keyframes) = 7
    /\ result.keyframes[2].step = 8
    /\ result.keyframes[3].step = 17

\* The trajectory of 20 steps from the anchor of riesling_crystal
\* {.90,.15,.55,.15,.10} to the anchor of napa_monument {.60,.95,.50,.95,.20}.
RieslingToNapa ==
    /\ Answered("compute_wine_tasting_trajectory")
    /\ call.start_wine_type_id = "riesling_crystal"
    /\ call.end_wine_type_id = "napa_monument"
    /\ call.num_steps = 20

\* Its 21 samples run from the start point to the end point exactly.
RieslingToNapaSamples ==
    /\ Len(result.trajectory) = 21
    /\ result.trajectory[1].state = StateOf(<<9000, 1500, 5500, 1500, 1000>>)
    /\ result.trajectory[21].state = StateOf(<<6000, 9500, 5000, 9500, 2000>>)

\* C2 (as amended): the trajectory riesling_crystal -> napa_monument with
\* num_steps = 20 has 21 samples, the first the start point and the last the
\* end point exactly, and its dominant transition axis is "color_depth":
\* color_depth and textural_weight both change by .80 and color_depth is
\* declared first.
C2_RieslingToNapaColorDepth ==
    RieslingToNapa =>
        /\ RieslingToNapaSamples
        /\ result.dominant_transition_axis = "color_depth"

C2_Witness ==
    /\ RieslingToNapa
    /\ Len(result.trajectory) = 21
    /\ result.trajectory[1].step = 0
    /\ result.trajectory[21].step = 20

\* C2 (as claimed): the same trajectory has 21 samples from the start point to
\* the end point exactly and its dominant transition axis is
\* "textural_weight".
C2_RieslingToNapaTexturalWeight ==
    RieslingToNapa =>
        /\ RieslingToNapaSamples
        /\ result.dominant_transition_axis = "textural_weight"

\* A trajectory between two registered archetypes that came back.
TrajectoryReturned ==
    /\ Answered("compute_wine_tasting_trajectory")
    /\ "dominant_transition_axis" \in DOMAIN result

\* |end[axis] - start[axis]| of the trajectory in hand.
EndpointChange(axis) ==
    Abs(Get(WINE_VISUAL_TYPES, call.end_wine_type_id).coords[axis]
        - Get(WINE_VISUAL_TYPES, call.start_wine_type_id).coords[axis])

\* C3: dominant_transition_axis maximizes |end[axis] - start[axis]| over the
\* five axes; of several axes with that maximum it is the first in declared
\* order; for start = end it is structural_tension.
C3_DominantAxisFirstMaximum ==
    TrajectoryReturned =>
        LET axis == result.dominant_transition_axis
        IN  /\ \E i \in 1..Len(DeclaredAxes) : DeclaredAxes[i] = axis
            /\ \A i \in 1..Len(DeclaredAxes) :
                   EndpointChange(DeclaredAxes[i]) <= EndpointChange(axis)
            /\ \A i \in 1..(IndexIn(DeclaredAxes, axis) - 1) :
                   EndpointChange(DeclaredAxes[i]) < EndpointChange(axis)
            /\ call.start_wine_type_id = call.end_wine_type_id
                   => axis = "structural_tension"

\* A trajectory whose greatest change is shared by two axes, and one from an
\* archetype to itself, are both computed; here the latter.
C3_Witness ==
    /\ TrajectoryReturned
    /\ call.start_wine_type_id = "barolo_patina"
    /\ call.end_wine_type_id = "barolo_patina"
    /\ call.num_steps = 3
    /\ result.dominant_transition_axis = "structural_tension"

\* The ids a call names that its registry does not hold.  An archetype id of
\* "" given next to raw coordinates is the default, not an attempted id.
UnknownIds ==
    CASE call.op \in {"get_wine_tasting_specifications", "map_wine_tasting_parameters"} ->
             {call.wine_type_id} \ {WINE_VISUAL_TYPES[i].key : i \in 1..Len(WINE_VISUAL_TYPES)}
      [] call.op = "compute_wine_tasting_distance" ->
             {call.wine_type_id_1, call.wine_type_id_2}
             \ {WINE_VISUAL_TYPES[i].key : i \in 1..Len(WINE_VISUAL_TYPES)}
      [] call.op = "compute_wine_tasting_trajectory" ->
             {call.start_wine_type_id, call.end_wine_type_id}
             \ {WINE_VISUAL_TYPES[i].key : i \in 1..Len(WINE_VISUAL_TYPES)}
      [] call.op \in {"apply_wine_tasting_rhythmic_preset",
                      "generate_wine_tasting_sequence_prompts"} ->
             {call.preset_name}
             \ {WINE_RHYTHMIC_PRESETS[i].key : i \in 1..Len(WINE_RHYTHMIC_PRESETS)}
      [] call.op = "generate_wine_tasting_rhythmic_sequence" ->
             {call.state_a_id, call.state_b_id}
             \ {WINE_TASTING_COORDS[i].key : i \in 1..Len(WINE_TASTING_COORDS)}
      [] call.op \in {"extract_wine_tasting_visual_vocabulary",
                      "generate_wine_tasting_prompt"} ->
             {call.wine_type_id}
             \ ({WINE_VISUAL_TYPES[i].key : i \in 1..Len(WINE_VISUAL_TYPES)} \cup {""})
      [] OTHER -> {}

\* The ids that are valid where the call's ids are looked up.
ValidIds ==
    IF call.op \in {"apply_wine_tasting_rhythmic_preset",
                    "generate_wine_tasting_sequence_prompts"}
    THEN Keys(WINE_RHYTHMIC_PRESETS)
    ELSE IF call.op = "generate_wine_tasting_rhythmic_sequence"
    THEN Keys(WINE_TASTING_COORDS)
    ELSE Keys(WINE_VISUAL_TYPES)

\* C4: an operation called with an unknown archetype, preset or canonical
\* state id returns (does not raise) an error document that carries both the
\* attempted id and the list of the valid ids.
C4_UnknownIdErrorCarriesIdAndValidIds ==
    (pc # "idle" /\ UnknownIds # {}) =>
        /\ pc = "returned"
        /\ IsError
        /\ "available" \in DOMAIN result
        /\ result.available = ValidIds
        /\ \A id \in UnknownIds : Quotes(id)

\* Both states of a generate_wine_tasting_rhythmic_sequence call are registered.
RhythmicStatesKnown ==
    /\ Called("generate_wine_tasting_rhythmic_sequence")
    /\ Has(WINE_TASTING_COORDS, call.state_a_id)
    /\ Has(WINE_TASTING_COORDS, call.state_b_id)

\* C5: generate_wine_tasting_rhythmic_sequence with two registered states and
\* a pattern other than sinusoidal, triangular or square returns an error
\* document: no exception leaves it and it returns no sequence.
C5_UnknownPatternIsReturnedError ==
    (RhythmicStatesKnown
     /\ call.oscillation_pattern \notin {"sinusoidal", "triangular", "square"})
    => /\ pc = "returned"
       /\ IsError
       /\ "sequence" \notin DOMAIN result

\* C6: generate_wine_tasting_rhythmic_sequence with num_cycles <= 0 or
\* steps_per_cycle <= 0 (two registered states, a known pattern) returns an
\* error document and never a successful result.
C6_NonPositiveCountsRejected ==
    (/\ RhythmicStatesKnown
     /\ call.oscillation_pattern \in {"sinusoidal", "triangular", "square"}
     /\ (call.num_cycles <= 0 \/ call.steps_per_cycle <= 0))
    => /\ pc = "returned"
       /\ IsError
       /\ "sequence" \notin DOMAIN result

\* C7: compute_wine_tasting_trajectory with two registered archetypes and
\* num_steps <= 0 returns an error document: it neither raises nor returns a
\* trajectory.
C7_NonPositiveNumStepsRejected ==
    (/\ Called("compute_wine_tasting_trajectory")
     /\ Has(WINE_VISUAL_TYPES, call.start_wine_type_id)
     /\ Has(WINE_VISUAL_TYPES, call.end_wine_type_id)
     /\ call.num_steps <= 0)
    => /\ pc = "returned"
       /\ IsError
       /\ "trajectory" \notin DOMAIN result

\* C8: generate_wine_tasting_sequence_prompts with a registered preset and
\* keyframe_count <= 0 returns an error document and no keyframes.
C8_NonPositiveKeyframeCountRejected ==
    (/\ Called("generate_wine_tasting_sequence_prompts")
     /\ Has(WINE_RHYTHMIC_PRESETS, call.preset_name)
     /\ call.keyframe_count <= 0)
    => /\ pc = "returned"
       /\ IsError
       /\ "keyframes" \notin DOMAIN result

\* The raw coordinates a call passes and the tool reads: state, or
\* custom_state, given without an archetype id.
RawCoordinatesGiven ==
    \/ /\ Called("extract_wine_tasting_visual_vocabulary")
       /\ call.wine_type_id = ""
       /\ call.state # NoState
    \/ /\ Called("generate_wine_tasting_prompt")
       /\ call.wine_type_id = ""
       /\ call.custom_state # NoState

RawCoordinates ==
    IF call.op = "extract_wine_tasting_visual_vocabulary"
    THEN call.state ELSE call.custom_state

\* state has the five declared axes, each value in [0.0, 1.0].
WellFormed(state) ==
    /\ \A i \in 1..Len(DeclaredAxes) : DeclaredAxes[i] \in DOMAIN state
    /\ \A p \in DOMAIN state : state[p] \in 0..Unit

\* C9: raw coordinates that lack a declared axis or hold a value outside
\* [0.0, 1.0] are answered with an error document: they are not classified
\* and no exception leaves the tool.
C9_MalformedCoordinatesRejected ==
    (RawCoordinatesGiven /\ ~WellFormed(RawCoordinates))
    => /\ pc = "returned"
       /\ IsError
       /\ "nearest_type" \notin DOMAIN result

\* A tool classified the raw coordinates it was given.
Classified ==
    /\ RawCoordinatesGiven
    /\ pc = "returned"
    /\ "nearest_type" \in DOMAIN result

\* The exact squared distance from the classified coordinates to archetype id.
ExactDistance(id) ==
    _euclidean_distance_wine(RawCoordinates, Get(WINE_VISUAL_TYPES, id).coords)

\* The distance the code computes to archetype a is below the one to b.
ComputedBelow(a, b) ==
    \/ ExactDistance(a) < ExactDistance(b)
    \/ /\ ExactDistance(a) = ExactDistance(b)
       /\ <<StateTuple(RawCoordinates), a, b>> \in DoubleTieBreaks

\* The archetypes no archetype is computed to be closer than.
ComputedNearest ==
    {a \in {ScanOrder[i] : i \in 1..Len(ScanOrder)} :
        \A i \in 1..Len(ScanOrder) : ~ComputedBelow(ScanOrder[i], a)}

\* The archetypes at the least exact distance.
ExactNearest ==
    {a \in {ScanOrder[i] : i \in 1..Len(ScanOrder)} :
        \A i \in 1..Len(ScanOrder) : ExactDistance(a) <= ExactDistance(ScanOrder[i])}

\* The member of ids that the scan meets first.
FirstScanned(ids) ==
    ScanOrder[CHOOSE i \in 1..Len(ScanOrder) :
                  /\ ScanOrder[i] \in ids
                  /\ \A j \in 1..(i - 1) : ScanOrder[j] \notin ids]

\* C10 (as amended): of the archetypes whose computed distances to the
\* coordinate are equal and least, _find_nearest_wine_visual_type returns
\* the one first in scan order: a later archetype replaces the best so far
\* only when its computed distance is strictly smaller.
C10_FirstOfComputedTies ==
    Classified =>
        /\ ComputedNearest # {}
        /\ result.nearest_type = FirstScanned(ComputedNearest)

\* {0, .25, .5, 1, 0} is computed to be as far from napa_monument as from
\* rhone_wildfire, and no archetype is closer.
C10_Witness ==
    /\ Classified
    /\ RawCoordinates = StateOf(<<0, 2500, 5000, 10000, 0>>)
    /\ ComputedNearest = {"napa_monument", "rhone_wildfire"}
    /\ result.nearest_type = "napa_monument"

\* C10 (as claimed): of the archetypes equidistant from the coordinate and
\* nearest to it, _find_nearest_wine_visual_type returns the one first in
\* scan order.
C10_FirstOfEquidistant ==
    Classified => result.nearest_type = FirstScanned(ExactNearest)

\* generate_wine_tasting_prompt is asked for one of its two modes (it builds
\* no prompt for another).
ModeKnown ==
    call.op = "generate_wine_tasting_prompt" => call.mode \in {"composite", "split_view"}

\* A tool classifies the anchor of the i-th archetype: given as raw
\* coordinates, or resolved from the archetype's id.
AnchorClassified(i) ==
    /\ ModeKnown
    /\ \/ /\ RawCoordinatesGiven
          /\ RawCoordinates = WINE_VISUAL_TYPES[i].value.coords
       \/ /\ Called("extract_wine_tasting_visual_vocabulary")
          /\ call.wine_type_id = WINE_VISUAL_TYPES[i].key
          /\ call.state = NoState
       \/ /\ Called("generate_wine_tasting_prompt")
          /\ call.wine_type_id = WINE_VISUAL_TYPES[i].key
          /\ call.custom_state = NoState

\* C11: classifying the anchor coordinates of a registered archetype returns
\* that archetype's own id with distance 0.0, and no two archetypes share
\* their coordinates.
C11_AnchorIsItsOwnNearest ==
    /\ \A i, j \in 1..Len(WINE_VISUAL_TYPES) :
           i # j => WINE_VISUAL_TYPES[i].value.coords # WINE_VISUAL_TYPES[j].value.coords
    /\ \A i \in 1..Len(WINE_VISUAL_TYPES) :
           AnchorClassified(i) =>
               /\ pc = "returned"
               /\ result.nearest_type = WINE_VISUAL_TYPES[i].key
               /\ result.distance = 0

\* The anchor of burgundian_silk, the first archetype scanned, given as raw
\* coordinates.
C11_Witness ==
    /\ Answered("extract_wine_tasting_visual_vocabulary")
    /\ call.wine_type_id = ""
    /\ call.state = StateOf(<<7000, 4500, 4000, 4000, 1500>>)
    /\ result.nearest_type = "burgundian_silk"
    /\ result.distance = 0

\* A trajectory of num_steps >= 1 between two registered archetypes came back.
TrajectoryOfSteps ==
    /\ TrajectoryReturned
    /\ call.num_steps >= 1

\* The square of the distance between the endpoints of the trajectory in hand,
\* in units of 1/Unit^2.
EndpointSquare ==
    LET s == [i \in 1..Len(DeclaredAxes) |->
                 EndpointChange(DeclaredAxes[i]) * EndpointChange(DeclaredAxes[i])]
    IN  s[1] + s[2] + s[3] + s[4] + s[5]

\* d is the square root of square to the nearest unit.
NearestRoot(d, square) ==
    /\ d >= 0
    /\ (2 * d + 1) * (2 * d + 1) >= 4 * square
    /\ (d = 0 /\ square = 0) \/ (2 * d - 1) * (2 * d - 1) <= 4 * square

\* What C12 says of the trajectory apart from the samples' t.
TrajectoryShape ==
    LET n == call.num_steps
    IN  /\ Len(result.trajectory) = n + 1
        /\ \A k \in 1..(n + 1) : result.trajectory[k].step = k - 1
        /\ result.trajectory[1].state
               = Get(WINE_VISUAL_TYPES, call.start_wine_type_id).coords
        /\ result.trajectory[n + 1].state
               = Get(WINE_VISUAL_TYPES, call.end_wine_type_id).coords
        /\ NearestRoot(result.total_distance, EndpointSquare)

RhythmicSequenceReturned ==
    /\ RhythmicStatesKnown
    /\ pc = "returned"
    /\ call.oscillation_pattern \in {"sinusoidal", "triangular", "square"}
    /\ call.num_cycles >= 1
    /\ call.steps_per_cycle >= 1
    /\ call.phase_offset >= 0

\* The blend factors of the same call without its phase offset.
UnshiftedBlendFactors ==
    LET alphas == _generate_wine_oscillation(call.num_cycles * call.steps_per_cycle,
                                             call.num_cycles, call.oscillation_pattern)
    IN  [k \in 1..Len(alphas) |-> RoundFraction(alphas[k])]

\* C13: with phase_offset >= 0 the blend factors are the un-offset ones
\* rotated circularly by k = floor(phase_offset * steps_per_cycle):
\* output[i] = base[(i + k) mod total_steps] for every i and every k, also
\* for k >= total_steps; the length is kept.
C13_PhaseOffsetRotates ==
    RhythmicSequenceReturned =>
        LET total == call.num_cycles * call.steps_per_cycle
            k     == (call.phase_offset * call.steps_per_cycle) \div 4
            base  == UnshiftedBlendFactors
        IN  /\ ~IsError
            /\ Len(result.sequence) = total
            /\ \A i \in 0..(total - 1) :
                   result.sequence[i + 1].blend_factor = base[((i + k) % total) + 1]

\* C14: with steps_per_cycle even, phase_offset = 0.0 makes the sequence
\* start at state A (first blend factor 0) and phase_offset = 0.5 at state B
\* (first blend factor 1), for each of the three patterns.
C14_PhaseOffsetPicksStartState ==
    (RhythmicSequenceReturned /\ call.steps_per_cycle % 2 = 0) =>
        /\ call.phase_offset = 0 => result.sequence[1].blend_factor = 0
        /\ call.phase_offset = 2 => result.sequence[1].blend_factor = Unit

\* A tool returned the oscillation of a registered preset, or of a call with
\* positive counts and no phase offset, as the blend factors of its sequence.
OscillationReturned ==
    \/ /\ Answered("apply_wine_tasting_rhythmic_preset")
       /\ Has(WINE_RHYTHMIC_PRESETS, call.preset_name)
    \/ /\ RhythmicSequenceReturned
       /\ call.phase_offset = 0

\* Its pattern, and its period totalSteps / cycles in samples.
OscillationPattern ==
    IF call.op = "apply_wine_tasting_rhythmic_preset"
    THEN Get(WINE_RHYTHMIC_PRESETS, call.preset_name).pattern
    ELSE call.oscillation_pattern

OscillationPeriod ==
    IF call.op = "apply_wine_tasting_rhythmic_preset"
    THEN Get(WINE_RHYTHMIC_PRESETS, call.preset_name).steps_per_cycle
    ELSE call.steps_per_cycle

\* C15: every value of the oscillation lies in [0, 1]; the square pattern
\* produces only 0.0 and 1.0; and the values repeat every totalSteps / cycles
\* samples: value[i + period] = value[i] wherever both are in range.
C15_OscillationBoundedPeriodic ==
    OscillationReturned =>
        LET seq == result.sequence
        IN  /\ \A k \in 1..Len(seq) : seq[k].blend_factor \in 0..Unit
            /\ OscillationPattern = "square" =>
                   \A k \in 1..Len(seq) : seq[k].blend_factor \in {0, Unit}
            /\ \A k \in 1..(Len(seq) - OscillationPeriod) :
                   seq[k + OscillationPeriod].blend_factor = seq[k].blend_factor

\* C16: the preset structure_toggle yields exactly 60 steps whose blend
\* factors are only 0.0 or 1.0, flipping once per half-cycle of 6 samples:
\* steps 12k .. 12k+5 have blend factor 0.0 and steps 12k+6 .. 12k+11 have
\* blend factor 1.0, for k = 0..4.
C16_StructureToggleSquareWave ==
    (Answered("apply_wine_tasting_rhythmic_preset")
     /\ call.preset_name = "structure_toggle")
    => /\ ~IsError
       /\ Len(result.sequence) = 60
       /\ \A i \in 0..59 :
              result.sequence[i + 1].blend_factor = (IF i % 12 < 6 THEN 0 ELSE Unit)

\* The preset is well formed: two registered states, a known pattern and
\* positive counts.
PresetWellFormed(preset) ==
    /\ Has(WINE_TASTING_COORDS, preset.state_a)
    /\ Has(WINE_TASTING_COORDS, preset.state_b)
    /\ preset.pattern \in {"sinusoidal", "triangular", "square"}
    /\ preset.num_cycles >= 1
    /\ preset.steps_per_cycle >= 1

\* The total_steps that list_wine_tasting_rhythmic_presets reports for name.
ListedTotalSteps(name) ==
    Get(list_wine_tasting_rhythmic_presets.body, name).total_steps

\* C17: every registered preset is well formed, and
\* apply_wine_tasting_rhythmic_preset returns for it a sequence of exactly
\* num_cycles * steps_per_cycle steps, the total_steps that
\* list_wine_tasting_rhythmic_presets reports for the same preset.
C17_PresetSequenceLength ==
    /\ \A i \in 1..Len(WINE_RHYTHMIC_PRESETS) :
           PresetWellFormed(WINE_RHYTHMIC_PRESETS[i].value)
    /\ (Called("apply_wine_tasting_rhythmic_preset")
        /\ Has(WINE_RHYTHMIC_PRESETS, call.preset_name))
       => LET preset == Get(WINE_RHYTHMIC_PRESETS, call.preset_name)
          IN  /\ pc = "returned"
              /\ ~IsError
              /\ Len(result.sequence) = preset.num_cycles * preset.steps_per_cycle
              /\ result.total_steps = Len(result.sequence)
              /\ ListedTotalSteps(call.preset_name) = Len(result.sequence)

\* terroir_pulse: 4 cycles of 18 steps.
C17_Witness ==
    /\ Answered("apply_wine_tasting_rhythmic_preset")
    /\ call.preset_name = "terroir_pulse"
    /\ Len(result.sequence) = 72
    /\ result.sequence[72].step = 71

\* A tool returned a sequence: of a registered preset, or of two registered
\* states with a known pattern, positive counts and phase_offset >= 0.
SequenceReturned ==
    \/ /\ Answered("apply_wine_tasting_rhythmic_preset")
       /\ Has(WINE_RHYTHMIC_PRESETS, call.preset_name)
    \/ RhythmicSequenceReturned

\* The two endpoint states of the sequence in hand.
SequenceStateA ==
    Get(WINE_TASTING_COORDS,
        IF call.op = "apply_wine_tasting_rhythmic_preset"
        THEN Get(WINE_RHYTHMIC_PRESETS, call.preset_name).state_a
        ELSE call.state_a_id)

SequenceStateB ==
    Get(WINE_TASTING_COORDS,
        IF call.op = "apply_wine_tasting_rhythmic_preset"
        THEN Get(WINE_RHYTHMIC_PRESETS, call.preset_name).state_b
        ELSE call.state_b_id)

\* What C18 says of the sequence apart from the steps' phase.
SequenceShape ==
    LET seq == result.sequence
    IN  /\ Len(seq) = result.total_steps
        /\ \A k \in 1..Len(seq) :
               /\ seq[k].step = k - 1
               /\ seq[k].blend_factor \in 0..Unit
               /\ \A i \in 1..Len(DeclaredAxes) :
                      LET a == SequenceStateA[DeclaredAxes[i]]
                          b == SequenceStateB[DeclaredAxes[i]]
                      IN  /\ seq[k].state[DeclaredAxes[i]] \in Min(a, b)..Max(a, b)
                          /\ seq[k].state[DeclaredAxes[i]] \in 0..Unit

\* The phase of a preset's step is the fraction index / total, below 1.
PresetPhaseExact(step, total) ==
    /\ step.phase.num * total = step.step * step.phase.den
    /\ step.phase.num >= 0
    /\ step.phase.num < step.phase.den

\* C18 (as amended): in every such sequence the steps are 0, 1, ..., total-1
\* in order; each phase is index / total, in [0, 1), which
\* generate_wine_tasting_rhythmic_sequence reports rounded to four decimals
\* (so in [0, 1]); each blend factor lies in [0, 1]; and on every axis the
\* state lies between the two endpoint states' values.
C18_SequenceStepsRoundedPhase ==
    SequenceReturned =>
        /\ SequenceShape
        /\ \A k \in 1..Len(result.sequence) :
               LET step  == result.sequence[k]
                   total == Len(result.sequence)
               IN  IF call.op = "apply_wine_tasting_rhythmic_preset"
                   THEN PresetPhaseExact(step, total)
                   ELSE /\ step.phase \in 0..Unit
                        /\ 2 * Abs(step.phase * total - step.step * Unit) <= total

\* Three steps in one cycle: phases 0, .3333, .6667.
C18_Witness ==
    /\ RhythmicSequenceReturned
    /\ call.state_a_id = "young_burgundy"
    /\ call.state_b_id = "aged_barolo"
    /\ call.oscillation_pattern = "triangular"
    /\ call.num_cycles = 1
    /\ call.steps_per_cycle = 3
    /\ call.phase_offset = 1
    /\ result.sequence[2].phase = 3333
    /\ result.sequence[3].phase = 6667

\* C18 (as claimed): the same, each step's phase being index / total.
C18_SequenceStepsExactPhase ==
    SequenceReturned =>
        /\ SequenceShape
        /\ \A k \in 1..Len(result.sequence) :
               LET step  == result.sequence[k]
                   total == Len(result.sequence)
               IN  IF call.op = "apply_wine_tasting_rhythmic_preset"
                   THEN PresetPhaseExact(step, total)
                   ELSE /\ step.phase \in 0..(Unit - 1)
                        /\ step.phase * total = step.step * Unit

\* compute_wine_tasting_distance measured two registered archetypes.
DistanceMeasured ==
    /\ Answered("compute_wine_tasting_distance")
    /\ Has(WINE_VISUAL_TYPES, call.wine_type_id_1)
    /\ Has(WINE_VISUAL_TYPES, call.wine_type_id_2)

SequenceAlphas ==
    IF call.op = "apply_wine_tasting_rhythmic_preset"
    THEN LET preset == Get(WINE_RHYTHMIC_PRESETS, call.preset_name)
         IN  _generate_wine_oscillation(preset.num_cycles * preset.steps_per_cycle,
                                        preset.num_cycles, preset.pattern)
    ELSE LET base == _generate_wine_oscillation(call.num_cycles * call.steps_per_cycle,
                                                call.num_cycles, call.oscillation_pattern)
         IN  IF call.phase_offset > 0
             THEN Rotate(base, OffsetSteps(call.phase_offset, call.steps_per_cycle))
             ELSE base

\* value is a * (1 - alpha) + b * alpha rounded to four decimals: exactly so
\* for a blend factor that is a fraction of the step count, and to within
\* the rounding of the reported blend factor for a sinusoidal one.
IsWeightedMean(value, a, b, alpha, blend_factor) ==
    IF alpha.den < 2 * SinScale
    THEN 2 * Abs(value * alpha.den - (a * (alpha.den - alpha.num) + b * alpha.num))
             <= alpha.den
    ELSE 2 * Abs(value * Unit - (a * (Unit - blend_factor) + b * blend_factor))
             <= Unit + Abs(b - a)

\* C20: _interpolate_wine_states(A, B, 0) is A's coordinates and
\* _interpolate_wine_states(A, B, 1) is B's; for every alpha each axis is
\* A's value * (1 - alpha) + B's value * alpha; and the registered states
\* are not modified.  Stated of every step of a returned sequence, whose
\* state is the interpolation rounded to four decimals.
C20_InterpolationEndpointsAndFrame ==
    /\ WINE_TASTING_COORDS = InitialTastingCoords
    /\ SequenceReturned =>
           /\ Len(result.sequence) = Len(SequenceAlphas)
           /\ \A k \in 1..Len(result.sequence) :
                  LET alpha == SequenceAlphas[k]
                      step  == result.sequence[k]
                  IN  /\ DOMAIN step.state = {DeclaredAxes[i] : i \in 1..Len(DeclaredAxes)}
                      /\ \A i \in 1..Len(DeclaredAxes) :
                             LET p == DeclaredAxes[i]
                             IN  /\ alpha.num = 0 => step.state[p] = SequenceStateA[p]
                                 /\ alpha.num = alpha.den => step.state[p] = SequenceStateB[p]
                                 /\ IsWeightedMean(step.state[p], SequenceStateA[p],
                                                   SequenceStateB[p], alpha,
                                                   step.blend_factor)

\* young_burgundy to aged_barolo and back in four triangular steps: the
\* first state is young_burgundy's, the third aged_barolo's, the second
\* halfway between them.
C20_Witness ==
    /\ RhythmicSequenceReturned
    /\ call.state_a_id = "young_burgundy"
    /\ call.state_b_id = "aged_barolo"
    /\ call.oscillation_pattern = "triangular"
    /\ call.num_cycles = 1
    /\ call.steps_per_cycle = 4
    /\ call.phase_offset = 0
    /\ SequenceStateA # SequenceStateB
    /\ result.sequence[1].state = SequenceStateA
    /\ result.sequence[3].state = SequenceStateB
    /\ result.sequence[2].blend_factor = 5000
    /\ \A i \in 1..Len(DeclaredAxes) :
           2 * result.sequence[2].state[DeclaredAxes[i]]
               \in { SequenceStateA[DeclaredAxes[i]] + SequenceStateB[DeclaredAxes[i]] + e :
                     e \in -1..1 }

\* The sequence in hand runs from young_burgundy to aged_barolo.
BurgundyToBarolo ==
    /\ SequenceReturned
    /\ SequenceStateA = Get(WINE_TASTING_COORDS, "young_burgundy")
    /\ SequenceStateB = Get(WINE_TASTING_COORDS, "aged_barolo")
    /\ IF call.op = "apply_wine_tasting_rhythmic_preset"
       THEN /\ Get(WINE_RHYTHMIC_PRESETS, call.preset_name).state_a = "young_burgundy"
            /\ Get(WINE_RHYTHMIC_PRESETS, call.preset_name).state_b = "aged_barolo"
       ELSE /\ call.state_a_id = "young_burgundy"
            /\ call.state_b_id = "aged_barolo"

\* {.775, .50, .675, .525, .525} on the five axes.
BurgundyBaroloMidpoint ==
    StateOf(<<7750, 5000, 6750, 5250, 5250>>)

\* C21: young_burgundy is {.70, .45, .40, .40, .15}, aged_barolo is
\* {.85, .55, .95, .65, .90}, and interpolating them at alpha = 0.5 yields
\* {.775, .50, .675, .525, .525}: every step of a sequence between the two
\* whose blend factor is one half carries that state.
C21_BurgundyBaroloMidpoint ==
    /\ Get(WINE_TASTING_COORDS, "young_burgundy") = StateOf(<<7000, 4500, 4000, 4000, 1500>>)
    /\ Get(WINE_TASTING_COORDS, "aged_barolo") = StateOf(<<8500, 5500, 9500, 6500, 9000>>)
    /\ BurgundyToBarolo =>
           \A k \in 1..Len(result.sequence) :
               2 * SequenceAlphas[k].num = SequenceAlphas[k].den =>
                   /\ result.sequence[k].blend_factor = 5000
                   /\ result.sequence[k].state = BurgundyBaroloMidpoint

\* A sinusoidal sequence of one cycle in four steps starts at one half.
C21_Witness ==
    /\ BurgundyToBarolo
    /\ call.op = "generate_wine_tasting_rhythmic_sequence"
    /\ call.oscillation_pattern = "sinusoidal"
    /\ call.num_cycles = 1
    /\ call.steps_per_cycle = 4
    /\ call.phase_offset = 0
    /\ 2 * SequenceAlphas[1].num = SequenceAlphas[1].den
    /\ result.sequence[1].state = BurgundyBaroloMidpoint

\* compute_wine_tasting_distance(riesling_crystal, napa_monument) returned.
RieslingNapaMeasured ==
    /\ DistanceMeasured
    /\ call.wine_type_id_1 = "riesling_crystal"
    /\ call.wine_type_id_2 = "napa_monument"

\* C22: compute_wine_tasting_distance(riesling_crystal, napa_monument)
\* reports the per-axis differences .30, .80, .05, .80, .10 in declared axis
\* order and the Euclidean distance 1.1758, the square root of 1.3825
\* rounded to four decimals.
C22_RieslingNapaDistance ==
    RieslingNapaMeasured =>
        /\ [i \in 1..Len(DeclaredAxes) |-> result.per_parameter[DeclaredAxes[i]]]
               = <<3000, 8000, 500, 8000, 1000>>
        /\ DOMAIN result.per_parameter = {DeclaredAxes[i] : i \in 1..Len(DeclaredAxes)}
        /\ result.euclidean_distance = 11758
        /\ 3000 * 3000 + 8000 * 8000 + 500 * 500 + 8000 * 8000 + 1000 * 1000
               = 13825 * Unit
        /\ NearestRoot(result.euclidean_distance, 13825 * Unit)

\* The call of C22 has returned its distance.
C22_Witness ==
    /\ RieslingNapaMeasured
    /\ result.wine_type_1 = "riesling_crystal"
    /\ result.wine_type_2 = "napa_monument"
    /\ result.euclidean_distance = 11758
    /\ result.per_parameter["color_depth"] = 8000

\* map_wine_tasting_parameters answered for a registered archetype with one
\* of the three intensities and one of the five emphases.
ParametersMapped ==
    /\ Answered("map_wine_tasting_parameters")
    /\ Has(WINE_VISUAL_TYPES, call.wine_type_id)
    /\ call.intensity \in {"subtle", "moderate", "dramatic"}
    /\ call.emphasis \in {"finish", "texture", "color", "aroma", "structure"}

\* The boost set of each emphasis, as zero-based keyword indices.
BoostSets ==
    [finish |-> {0, 5}, texture |-> {1, 3}, color |-> {0, 2},
     aroma |-> {2, 4, 5}, structure |-> {1, 3, 5}]

\* subtle = 0.5, moderate = 1.0, dramatic = 1.5, in hundredths.
IntensityMultipliers ==
    [subtle |-> 50, moderate |-> 100, dramatic |-> 150]

\* C23: for every registered archetype, intensity in {subtle, moderate,
\* dramatic} and emphasis in {finish, texture, color, aroma, structure},
\* map_wine_tasting_parameters returns one weighted entry per keyword of the
\* archetype, in the bundle's order, with weight = multiplier * 1.5 when the
\* keyword's index is in the emphasis's boost set and multiplier * 1.0
\* otherwise; every index of every boost set is a keyword index of every
\* archetype.
C23_KeywordWeights ==
    /\ \A i \in 1..Len(WINE_VISUAL_TYPES) :
           \A e \in DOMAIN BoostSets :
               BoostSets[e] \subseteq 0..(Len(WINE_VISUAL_TYPES[i].value.keywords) - 1)
    /\ ParametersMapped =>
           LET keywords == Get(WINE_VISUAL_TYPES, call.wine_type_id).keywords
               weighted == result.weighted_keywords
               mult     == IntensityMultipliers[call.intensity]
           IN  /\ ~IsError
               /\ Len(weighted) = Len(keywords)
               /\ \A k \in 1..Len(weighted) :
                      /\ weighted[k].keyword = keywords[k]
                      /\ IF (k - 1) \in BoostSets[call.emphasis]
                         THEN 2 * weighted[k].weight = 3 * mult
                         ELSE weighted[k].weight = mult

\* burgundian_silk, subtle, aroma: keywords 2, 4 and 5 weigh 0.75, the
\* other four 0.5.
C23_Witness ==
    /\ ParametersMapped
    /\ call.wine_type_id = "burgundian_silk"
    /\ call.intensity = "subtle"
    /\ call.emphasis = "aroma"
    /\ [k \in 1..Len(result.weighted_keywords) |-> result.weighted_keywords[k].weight]
           = <<50, 50, 75, 50, 75, 75, 50>>

\* C24: after any sequence of tool invocations with any arguments, valid or
\* invalid, succeeding or failing, WINE_PARAMETER_NAMES, WINE_TASTING_COORDS,
\* WINE_VISUAL_TYPES and WINE_RHYTHMIC_PRESETS hold exactly their initial
\* contents: no operation writes to a registry, and interpolation and
\* trajectory building produce new states.
C24_RegistriesNeverChange ==
    /\ WINE_PARAMETER_NAMES = InitialParameterNames
    /\ WINE_TASTING_COORDS = InitialTastingCoords
    /\ WINE_VISUAL_TYPES = InitialVisualTypes
    /\ WINE_RHYTHMIC_PRESETS = InitialRhythmicPresets

\* A square sequence from young_burgundy to aged_barolo ended on aged_barolo's
\* coordinates, and young_burgundy is still registered as it was.
C24_Witness ==
    /\ RhythmicSequenceReturned
    /\ call.state_a_id = "young_burgundy"
    /\ call.state_b_id = "aged_barolo"
    /\ call.oscillation_pattern = "square"
    /\ result.sequence[Len(result.sequence)].state = Get(InitialTastingCoords, "aged_barolo")
    /\ Get(WINE_TASTING_COORDS, "young_burgundy") = Get(InitialTastingCoords, "young_burgundy")
    /\ registries = << InitialParameterNames, InitialTastingCoords,
                       InitialRhythmicPresets, InitialVisualTypes >>

\* apply_wine_tasting_rhythmic_preset returned a registered preset's sequence.
PresetApplied ==
    /\ Answered("apply_wine_tasting_rhythmic_preset")
    /\ Has(WINE_RHYTHMIC_PRESETS, call.preset_name)

\* C25: every numeric value in an operation's output is rounded to the one
\* precision of four decimals: the trajectory parameter t is i / num_steps
\* rounded to four decimals, a preset step's phase is a whole number of
\* ten-thousandths, and a keyword weight is strength * (1 - 0.05 * index)
\* to four decimals.
C25_FourDecimalsEverywhere ==
    /\ TrajectoryOfSteps =>
           \A k \in 1..Len(result.trajectory) :
               2 * Abs(result.trajectory[k].t * (Unit \div TUnit) * call.num_steps
                       - (k - 1) * Unit) <= call.num_steps
    /\ PresetApplied =>
           \A k \in 1..Len(result.sequence) :
               (result.sequence[k].phase.num * Unit) % result.sequence[k].phase.den = 0
    /\ (Answered("extract_wine_tasting_visual_vocabulary") /\ ~IsError) =>
           \A k \in 1..Len(result.weighted_keywords) :
               result.weighted_keywords[k].weight * (Unit \div WeightUnit)
                   = call.strength * (100 - 5 * (k - 1))

\* A coordinate-resolving tool was called with both a non-empty wine_type_id
\* and a non-empty raw state (and, for the prompt, a known mode).
BothSourcesSupplied ==
    /\ \/ Called("extract_wine_tasting_visual_vocabulary")
       \/ Called("generate_wine_tasting_prompt")
    /\ ModeKnown
    /\ call.wine_type_id # ""
    /\ Truthy(RawCoordinates)

\* The coordinates the answer in hand echoes: input_state or source_state.
EchoedState ==
    IF call.op = "extract_wine_tasting_visual_vocabulary"
    THEN result.input_state ELSE result.source_state

\* C30: when a wine_type_id and a raw state are supplied together, both
\* tools pick the source in the same way: a registered wine_type_id
\* determines the coordinates that are classified, and a non-empty
\* wine_type_id that is not registered is reported as an error, not
\* silently replaced by the supplied state.
C30_SameSourceSelection ==
    BothSourcesSupplied =>
        /\ pc = "returned"
        /\ IF Has(WINE_VISUAL_TYPES, call.wine_type_id)
           THEN /\ ~IsError
                /\ EchoedState = Get(WINE_VISUAL_TYPES, call.wine_type_id).coords
                /\ result.nearest_type = call.wine_type_id
                /\ result.distance = 0
           ELSE IsError

\* The spellings callers use that differ from a registered value in case
\* only, with the registered value.
SpelledOtherwise ==
    [Pinot_Noir |-> "pinot_noir", RIESLING |-> "riesling", Warm |-> "warm",
     NEW_WORLD |-> "new_world", None |-> "none", Mature |-> "mature"]

\* value is a value of the enumeration, whatever its case.
Registered(value, enumeration) ==
    LET plain == IF value \in DOMAIN SpelledOtherwise THEN SpelledOtherwise[value]
                 ELSE value
    IN  \E i \in 1..Len(enumeration) : enumeration[i] = plain

\* All five enumerated arguments of the vocabulary call in hand are registered.
AllFiveRegistered ==
    /\ Registered(call.varietal, Varietal)
    /\ Registered(call.climate, ClimateType)
    /\ Registered(call.winemaking_style, WinemakingStyle)
    /\ Registered(call.oak_treatment, OakTreatment)
    /\ Registered(call.age, AgeCategory)

\* The sections of a visual vocabulary.
VocabularySections ==
    {"base_color", "opacity_clarity", "texture_surface", "compositional_structure",
     "atmospheric_qualities", "material_references", "color_palette",
     "aromatic_descriptors", "balance_relationships", "finish_dimension", "metadata"}

\* C26: generate_wine_visual_vocabulary returns an error value, with an
\* "error" key and none of the vocabulary sections, whenever any of
\* varietal, climate, winemaking_style, oak_treatment or age is not a
\* registered value, and a vocabulary with all sections and no "error" key
\* whenever all five are registered, whatever their case.
C26_VocabularyOrError ==
    Called("generate_wine_visual_vocabulary") =>
        /\ pc = "returned"
        /\ IF AllFiveRegistered
           THEN DOMAIN result = VocabularySections
           ELSE /\ IsError
                /\ DOMAIN result \cap VocabularySections = {}

\* Five registered values in mixed case gave the vocabulary of pinot noir.
C26_Witness ==
    /\ Answered("generate_wine_visual_vocabulary")
    /\ call.varietal = "Pinot_Noir"
    /\ call.climate = "Warm"
    /\ call.winemaking_style = "NEW_WORLD"
    /\ call.oak_treatment = "None"
    /\ call.age = "Mature"
    /\ ~IsError
    /\ result.base_color.hue = "#8B2635"
    /\ result.metadata.varietal = "Pinot_Noir"

\* get_visual_tension answered for a profile of high acidity.
HighAcidityProfile ==
    /\ Answered("get_visual_tension")
    /\ call.self.acidity >= 9 * LevelUnit
    /\ call.self.tannin \in 0..(10 * LevelUnit)

\* C27: high acidity creates tension: for every BalanceProfile whose acidity
\* is at least 9 on the 1-10 scale, whatever its tannin in [0, 10],
\* get_visual_tension returns "high angular taut"; so does the visual
\* tension of the mosel_riesling regional preset (acidity 9.0, tannin 0).
C27_HighAcidityIsHighTension ==
    /\ HighAcidityProfile => result.value = "high angular taut"
    /\ (Answered("create_regional_preset") /\ call.region = "mosel_riesling") =>
           /\ ~IsError
           /\ result.balance_relationships.acidity = 9 * LevelUnit
           /\ result.balance_relationships.visual_tension = "high angular taut"

\* _load_taxonomy has returned.
TaxonomyLoaded ==
    Answered("_load_taxonomy")

\* C28: the taxonomy is loaded once: after the first call of _load_taxonomy
\* (the one made when the module is imported) has returned, every later call
\* returns the cached value without opening or parsing the taxonomy file
\* again, whatever the file holds, an empty document included.
C28_TaxonomyLoadedOnce ==
    /\ file_opens = 1
    /\ TaxonomyLoaded => result.value = YamlSafeLoad(taxonomy_file)

\* compare_wine_profiles was called with these two parameter sets accepted.
Accepted(params) ==
    /\ VocabularyOf(params) \notin {Raised("TypeError")}
    /\ "error" \notin DOMAIN VocabularyOf(params)

ComparisonSections ==
    {"color_contrast", "texture_contrast", "weight_contrast",
     "atmospheric_contrast", "balance_comparison"}

\* C29: compare_wine_profiles returns a value for every pair of parameter
\* sets: the five sections color_contrast, texture_contrast, weight_contrast,
\* atmospheric_contrast and balance_comparison when both profiles are
\* accepted by generate_wine_visual_vocabulary, and a structured error,
\* never a raised exception, when either profile is rejected.
C29_CompareReturnsValue ==
    Called("compare_wine_profiles") =>
        /\ pc = "returned"
        /\ IF Accepted(call.wine1_params) /\ Accepted(call.wine2_params)
           THEN DOMAIN result = ComparisonSections
           ELSE IsError
====
